---- MODULE Spec2Model ----
(***************************************************************************)
(* A model of gkisalatiga/ptz-with-gamepad:                                *)
(*   - the poll loop of main() in gamepad_taffgo.py, which turns sampled   *)
(*     gamepad state into VISCA commands through its block_* latches;      *)
(*   - the command builders of class PTZ in debug/pyviscas/visca.py.       *)
(* Analog readings are integers in units of 1/10000 of the full axis       *)
(* range; values formatted with '%.3f' are integers in thousandths.        *)
(* Command strings are sequences of one-character strings.                 *)
(***************************************************************************)
EXTENDS Integers, Sequences, FiniteSets, TLC

VARIABLES
    joysticks,            \* main: the dict of connected joysticks (its keys)
    done,                 \* main: the loop flag
    block,                \* main: the block_* latches, by name
    MAX_MOVEMENT_SPEED,   \* main: pan/tilt speed ceiling
    MAX_ZOOM_SPEED,       \* main: zoom speed ceiling
    sent,                 \* commands handed to cam in the latest loop iteration
    sample,               \* the sample read in the latest iteration that read one
    polled,               \* whether the latest iteration read a sample
    focus,                \* which group of controls the operator works in this run
    menuZero,             \* history: every sample so far read MENU = 0
    runRecall,            \* history: recalls of preset i in button i's current press
    menuMoved,            \* history: per control, MENU changed during its current hold
    same,                 \* history: the latest two iterations read equal samples
    exc,                  \* history: per axis, the commands of its current excursion
    moving,               \* history: per motion group, a start was sent since its last stop
    unstopped,            \* history: per motion group, the latest iteration sent a start
                          \*          while an earlier start had not been stopped
    lastCmd,              \* history: per motion group, the latest command sent for it
    call,                 \* codec: the PTZ operation called and its arguments
    wire,                 \* codec: what the call handed to the transport, or that it raised
    wrote,                \* codec: how the transport write of the call went
    ret,                  \* codec: what the call returned to its caller
    answer,               \* inquiry: the integer get_pan, get_tilt or get_zoom returned
    sup,                  \* __main__: where the supervisor loop stands
    ended,                \* history: how main ended, the latest time it did
    failed,               \* history: the writes of the latest iteration failed
    lost,                 \* history: commands whose write failed, control held since
    resent,               \* history: the latest iteration sent a command of lost again
    inbuf,                \* serial port: the input buffer, a sequence of chunks
    inq_at,               \* inquiry: the position inside inq and its caller
    inq_x,                \* inquiry: inq's local x
    heard,                \* history: what the latest read_all() took from the port
    steps,                \* history: the transport steps of the inquiry, in order
    fresh,                \* history: bytes arrived since the inquiry cleared the buffer
    staleRead             \* history: a read took bytes that arrived before the clear

\* main's locals and the histories of its loop
loopVars == <<joysticks, done, block, MAX_MOVEMENT_SPEED, MAX_ZOOM_SPEED, sent, sample,
              polled, menuZero, runRecall, menuMoved, same, exc, moving, unstopped,
              lastCmd>>

sessionVars == <<sup, ended, failed, lost, resent>>

codecVars == <<call, wire, wrote, ret>>

inquiryVars == <<inbuf, inq_at, inq_x, answer, heard, steps, fresh, staleRead>>

vars == <<joysticks, done, block, MAX_MOVEMENT_SPEED, MAX_ZOOM_SPEED, sent, sample,
          polled, focus, menuZero, runRecall, menuMoved, same, exc,
          moving, unstopped, lastCmd, call, wire, wrote, ret, sup, ended, failed, lost, resent,
          inbuf, inq_at, inq_x, answer, heard, steps, fresh, staleRead>>

(***************************************************************************)
(* Bounds of the model.                                                    *)
(***************************************************************************)
\* history counters saturate here
MaxCount == 3

(***************************************************************************)
(* gamepad_taffgo.py: constants of main.                                   *)
(***************************************************************************)
\* thousandths per unit: the three decimals of '%.3f'
Milli == 1000
\* analog readings per unit: one more decimal than '%.3f' keeps
Raw == 10 * Milli
JOYSTICK_REST_VAL == 0
JOYSTICK_MIN_VAL == -1000
JOYSTICK_MAX_VAL == 1000

LatchNames ==
    {"block_up", "block_down", "block_left", "block_right", "block_rest",
     "block_zoom_in", "block_zoom_out", "block_zoom_rest",
     "block_0", "block_1", "block_2", "block_3",
     "block_4", "block_5", "block_6", "block_7",
     "block_set_0", "block_set_1", "block_set_2", "block_set_3",
     "block_set_4", "block_set_5", "block_set_6", "block_set_7"}

Abs(x) == IF x < 0 THEN -x ELSE x

Sign(x) == IF x < 0 THEN -1 ELSE 1

\* int(v) of a float: truncation toward zero
IntTrunc(raw) == Sign(raw) * (Abs(raw) \div Raw)

\* float('%.3f' % v): the reading rounded to thousandths (readings that lie
\* exactly half way between two thousandths are not among the inputs)
Fmt3(raw) == Sign(raw) * ((Abs(raw) + 5) \div 10)

\* round(x) of a float given in thousandths: to the nearest integer, ties to even
PyRound(x) ==
    LET q == Abs(x) \div Milli
        r == Abs(x) % Milli
        n == IF 2 * r > Milli THEN q + 1
             ELSE IF 2 * r < Milli THEN q
             ELSE IF q % 2 = 0 THEN q ELSE q + 1
    IN  Sign(x) * n

\* get_speed(val, max_speed), val and the result in thousandths
get_speed(val, max_speed) == max_speed * Abs(val)

(***************************************************************************)
(* The sample main reads from one joystick.                                *)
(***************************************************************************)
L2(in) == IF IntTrunc(in.axis4) = 0 THEN 1 ELSE 0

R2(in) == IF IntTrunc(in.axis5) = 0 THEN 1 ELSE 0

ABS_JOY_L_X(in) == Fmt3(in.axis0)

ABS_JOY_L_Y(in) == Fmt3(in.axis1)

ABS_JOY_R_Y(in) == Fmt3(in.axis3)

(***************************************************************************)
(* The body of main's loop for one joystick, section by section.  s holds  *)
(* the latches, the two ceilings and the commands sent so far.             *)
(***************************************************************************)
Dispatch(s, cmd) == [s EXCEPT !.sent = Append(@, cmd)]

\* ButtonLatch without "blk = True" after the send
ButtonLatchUnarmed(s, btn, blk, cmd) ==
    IF btn = 1
    THEN IF ~s[blk] THEN Dispatch(s, cmd) ELSE s
    ELSE IF btn = 0
         THEN IF s[blk] THEN [s EXCEPT ![blk] = FALSE] ELSE s
         ELSE s

\* if btn == 1: if not blk: <send>; blk = True / elif btn == 0: if blk: blk = False
ButtonLatch(s, btn, blk, cmd) ==
    IF btn = 1
    THEN IF ~s[blk] THEN [Dispatch(s, cmd) EXCEPT ![blk] = TRUE] ELSE s
    ELSE IF btn = 0
         THEN IF s[blk] THEN [s EXCEPT ![blk] = FALSE] ELSE s
         ELSE s

\* if _ABS_HAT0 == dir: if not blk: <send>; blk = True
HatLatch(s, hat, dir, blk, cmd) ==
    IF hat = dir /\ ~s[blk] THEN [Dispatch(s, cmd) EXCEPT ![blk] = TRUE] ELSE s

\* if _ABS_HAT0 == (0, 0): clear the four latches
HatGround(s, hat, b4, b5, b6, b7) ==
    IF hat = <<0, 0>>
    THEN [s EXCEPT ![b4] = FALSE, ![b5] = FALSE, ![b6] = FALSE, ![b7] = FALSE]
    ELSE s

RecallRight(s, in) ==
    IF in.MENU = 0
    THEN LET s0 == ButtonLatch(s, in.BTN_Y, "block_0", <<"preset_recall", 0>>)
             s1 == ButtonLatch(s0, in.BTN_B, "block_1", <<"preset_recall", 1>>)
             s2 == ButtonLatch(s1, in.BTN_A, "block_2", <<"preset_recall", 2>>)
         IN  ButtonLatch(s2, in.BTN_X, "block_3", <<"preset_recall", 3>>)
    ELSE s

RecallLeft(s, in) ==
    IF in.MENU = 0
    THEN LET s4 == HatLatch(s, in.ABS_HAT0, <<0, 1>>, "block_4", <<"preset_recall", 4>>)
             s5 == HatLatch(s4, in.ABS_HAT0, <<1, 0>>, "block_5", <<"preset_recall", 5>>)
             s6 == HatLatch(s5, in.ABS_HAT0, <<0, -1>>, "block_6", <<"preset_recall", 6>>)
             s7 == HatLatch(s6, in.ABS_HAT0, <<-1, 0>>, "block_7", <<"preset_recall", 7>>)
         IN  HatGround(s7, in.ABS_HAT0, "block_4", "block_5", "block_6", "block_7")
    ELSE s

SetRight(s, in) ==
    IF in.MENU = 1
    THEN LET s0 == ButtonLatch(s, in.BTN_Y, "block_set_0", <<"preset_set", 0>>)
             s1 == ButtonLatch(s0, in.BTN_B, "block_set_1", <<"preset_set", 1>>)
             s2 == ButtonLatch(s1, in.BTN_A, "block_set_2", <<"preset_set", 2>>)
         IN  ButtonLatch(s2, in.BTN_X, "block_set_3", <<"preset_set", 3>>)
    ELSE s

SetLeft(s, in) ==
    IF in.MENU = 1
    THEN LET s4 == HatLatch(s, in.ABS_HAT0, <<0, 1>>, "block_set_4", <<"preset_set", 4>>)
             s5 == HatLatch(s4, in.ABS_HAT0, <<1, 0>>, "block_set_5", <<"preset_set", 5>>)
             s6 == HatLatch(s5, in.ABS_HAT0, <<0, -1>>, "block_set_6", <<"preset_set", 6>>)
             s7 == HatLatch(s6, in.ABS_HAT0, <<-1, 0>>, "block_set_7", <<"preset_set", 7>>)
         IN  HatGround(s7, in.ABS_HAT0,
                       "block_set_4", "block_set_5", "block_set_6", "block_set_7")
    ELSE s

\* MovementTier with the low speed set to 0
MovementTierZero(s, in) ==
    LET a == IF in.L1 = 0 /\ L2(in) = 0 THEN 0 ELSE s.MAX_MOVEMENT_SPEED
        b == IF in.L1 = 1 THEN 7 ELSE a
    IN  [s EXCEPT !.MAX_MOVEMENT_SPEED = IF L2(in) = 1 THEN 14 ELSE b]

\* Adjusting speed: pan-tilt movement
MovementTier(s, in) ==
    LET a == IF in.L1 = 0 /\ L2(in) = 0 THEN 1 ELSE s.MAX_MOVEMENT_SPEED
        b == IF in.L1 = 1 THEN 7 ELSE a
    IN  [s EXCEPT !.MAX_MOVEMENT_SPEED = IF L2(in) = 1 THEN 14 ELSE b]

\* ZoomTier without its medium speed
ZoomTierCarried(s, in) ==
    LET a == IF in.R1 = 0 /\ R2(in) = 0 THEN 1 ELSE s.MAX_ZOOM_SPEED
    IN  [s EXCEPT !.MAX_ZOOM_SPEED = IF R2(in) = 1 THEN 7 ELSE a]

\* Adjusting speed: zoom movement
ZoomTier(s, in) ==
    LET a == IF in.R1 = 0 /\ R2(in) = 0 THEN 1 ELSE s.MAX_ZOOM_SPEED
        b == IF in.R1 = 1 THEN 3 ELSE a
    IN  [s EXCEPT !.MAX_ZOOM_SPEED = IF R2(in) = 1 THEN 7 ELSE b]

\* AxisLatch without "block_... = True" after the send
AxisLatchUnarmed(s, val, restval, lo, hi, locmd, hicmd, ceiling) ==
    IF val # restval
    THEN IF val >= JOYSTICK_MIN_VAL /\ val < JOYSTICK_REST_VAL
         THEN IF ~s[lo]
              THEN Dispatch(s, <<locmd, PyRound(get_speed(Milli, ceiling))>>)
              ELSE s
         ELSE IF val > JOYSTICK_REST_VAL /\ val <= JOYSTICK_MAX_VAL
              THEN IF ~s[hi]
                   THEN Dispatch(s, <<hicmd, PyRound(get_speed(Milli, ceiling))>>)
                   ELSE s
              ELSE s
    ELSE s

\* one "Movement actions" section: val on the low side arms lo, on the high side hi
AxisLatch(s, val, restval, lo, hi, locmd, hicmd, ceiling) ==
    IF val # restval
    THEN IF val >= JOYSTICK_MIN_VAL /\ val < JOYSTICK_REST_VAL
         THEN IF ~s[lo]
              THEN [Dispatch(s, <<locmd, PyRound(get_speed(Milli, ceiling))>>)
                       EXCEPT ![lo] = TRUE]
              ELSE s
         ELSE IF val > JOYSTICK_REST_VAL /\ val <= JOYSTICK_MAX_VAL
              THEN IF ~s[hi]
                   THEN [Dispatch(s, <<hicmd, PyRound(get_speed(Milli, ceiling))>>)
                            EXCEPT ![hi] = TRUE]
                   ELSE s
              ELSE s
    ELSE s

\* PanAction that does not look at its latches
PanActionFresh(s, in) ==
    AxisLatch([s EXCEPT !.block_left = FALSE, !.block_right = FALSE],
              ABS_JOY_L_X(in), JOYSTICK_REST_VAL, "block_left", "block_right",
              "left", "right", s.MAX_MOVEMENT_SPEED)

\* Movement actions (left-right panning)
PanAction(s, in) ==
    AxisLatch(s, ABS_JOY_L_X(in), JOYSTICK_REST_VAL, "block_left", "block_right",
              "left", "right", s.MAX_MOVEMENT_SPEED)

\* Movement actions (up-down tilting): the guard compares with 128
TiltAction(s, in) ==
    AxisLatch(s, ABS_JOY_L_Y(in), 128 * Milli, "block_up", "block_down",
              "up", "down", s.MAX_MOVEMENT_SPEED)

\* CenterState without cam.stop()
CenterStateSilent(s, in) ==
    IF ABS_JOY_L_X(in) = ABS_JOY_L_Y(in) /\ ABS_JOY_L_X(in) = JOYSTICK_REST_VAL
    THEN IF ~s.block_rest
         THEN [s EXCEPT !.block_rest = TRUE,
                  !.block_up = FALSE, !.block_down = FALSE,
                  !.block_left = FALSE, !.block_right = FALSE]
         ELSE s
    ELSE IF s.block_rest THEN [s EXCEPT !.block_rest = FALSE] ELSE s

\* CenterState without "block_rest = True" after the stop
CenterStateUnarmed(s, in) ==
    IF ABS_JOY_L_X(in) = ABS_JOY_L_Y(in) /\ ABS_JOY_L_X(in) = JOYSTICK_REST_VAL
    THEN IF ~s.block_rest
         THEN [Dispatch(s, <<"stop">>) EXCEPT
                  !.block_up = FALSE, !.block_down = FALSE,
                  !.block_left = FALSE, !.block_right = FALSE]
         ELSE s
    ELSE IF s.block_rest THEN [s EXCEPT !.block_rest = FALSE] ELSE s

\* Center state (at-rest state of the pan and tilt)
CenterState(s, in) ==
    IF ABS_JOY_L_X(in) = ABS_JOY_L_Y(in) /\ ABS_JOY_L_X(in) = JOYSTICK_REST_VAL
    THEN IF ~s.block_rest
         THEN [Dispatch(s, <<"stop">>) EXCEPT !.block_rest = TRUE,
                  !.block_up = FALSE, !.block_down = FALSE,
                  !.block_left = FALSE, !.block_right = FALSE]
         ELSE s
    ELSE IF s.block_rest THEN [s EXCEPT !.block_rest = FALSE] ELSE s

\* Movement actions (zoom): the guard compares with 128
ZoomAction(s, in) ==
    AxisLatch(s, ABS_JOY_R_Y(in), 128 * Milli, "block_zoom_in", "block_zoom_out",
              "zoom_in", "zoom_out", s.MAX_ZOOM_SPEED)

\* ZoomCenter without the reset of the two zoom latches
ZoomCenterKeeps(s, in) ==
    IF ABS_JOY_R_Y(in) = JOYSTICK_REST_VAL
    THEN IF ~s.block_zoom_rest
         THEN [Dispatch(s, <<"zoom_stop">>) EXCEPT !.block_zoom_rest = TRUE]
         ELSE s
    ELSE IF s.block_zoom_rest THEN [s EXCEPT !.block_zoom_rest = FALSE] ELSE s

\* Center state of the zoom
ZoomCenter(s, in) ==
    IF ABS_JOY_R_Y(in) = JOYSTICK_REST_VAL
    THEN IF ~s.block_zoom_rest
         THEN [Dispatch(s, <<"zoom_stop">>) EXCEPT !.block_zoom_rest = TRUE,
                  !.block_zoom_in = FALSE, !.block_zoom_out = FALSE]
         ELSE s
    ELSE IF s.block_zoom_rest THEN [s EXCEPT !.block_zoom_rest = FALSE] ELSE s

\* PollBody with the tilt section ahead of the pan section
PollBodyTiltFirst(s, in) ==
    LET a == SetLeft(SetRight(RecallLeft(RecallRight(s, in), in), in), in)
        b == ZoomTier(MovementTier(a, in), in)
        c == CenterState(PanAction(TiltAction(b, in), in), in)
    IN  ZoomCenter(ZoomAction(c, in), in)

\* the whole body of "for joystick in joysticks.values()"
PollBody(s, in) ==
    LET a == SetLeft(SetRight(RecallLeft(RecallRight(s, in), in), in), in)
        b == ZoomTier(MovementTier(a, in), in)
        c == CenterState(TiltAction(PanAction(b, in), in), in)
    IN  ZoomCenter(ZoomAction(c, in), in)

(***************************************************************************)
(* The operator's inputs.  A run works one group of controls; the controls *)
(* outside the group stay at their neutral reading.                        *)
(***************************************************************************)
Neutral ==
    [L1 |-> 0, axis4 |-> -Raw, R1 |-> 0, axis5 |-> -Raw, MENU |-> 0,
     BTN_A |-> 0, BTN_B |-> 0, BTN_X |-> 0, BTN_Y |-> 0,
     ABS_HAT0 |-> <<0, 0>>, axis0 |-> 0, axis1 |-> 0, axis3 |-> 0]

\* stick readings: full deflection either way, centred, and a reading that
\* '%.3f' rounds to 0.000
StickReadings == {-Raw, 0, 4, Raw}

\* trigger readings: released, half pressed, fully pressed
TriggerReadings == {-Raw, 0, Raw - 1}

HatReadings == {<<x, y>> : x \in {-1, 0, 1}, y \in {-1, 0, 1}}

FocusGroups == {"buttonsYB", "buttonsAX", "hat", "sticks", "pan", "zoom", "mixed"}

Samples(f) ==
    CASE f = "buttonsYB" ->
           {[Neutral EXCEPT !.MENU = m, !.BTN_Y = y, !.BTN_B = b] :
               m \in {0, 1}, y \in {0, 1}, b \in {0, 1}}
      [] f = "buttonsAX" ->
           {[Neutral EXCEPT !.MENU = m, !.BTN_A = a, !.BTN_X = x] :
               m \in {0, 1}, a \in {0, 1}, x \in {0, 1}}
      [] f = "hat" ->
           {[Neutral EXCEPT !.MENU = m, !.ABS_HAT0 = h] : m \in {0, 1}, h \in HatReadings}
      [] f = "sticks" ->
           {[Neutral EXCEPT !.axis0 = x, !.axis1 = y] :
               x \in StickReadings, y \in StickReadings}
      [] f = "pan" ->
           {[Neutral EXCEPT !.L1 = l, !.axis4 = t, !.axis0 = x] :
               l \in {0, 1}, t \in TriggerReadings, x \in StickReadings}
      [] f = "zoom" ->
           {[Neutral EXCEPT !.R1 = l, !.axis5 = t, !.axis3 = y] :
               l \in {0, 1}, t \in TriggerReadings, y \in StickReadings}
      [] f = "session" ->
           {[Neutral EXCEPT !.BTN_Y = b, !.axis0 = x, !.axis3 = y] :
               b \in {0, 1}, x \in {-Raw, 0}, y \in {0, Raw}}
      [] OTHER ->
           {[Neutral EXCEPT !.MENU = m, !.BTN_Y = b, !.ABS_HAT0 = h, !.axis0 = x, !.axis3 = y] :
               m \in {0, 1}, b \in {0, 1}, h \in {<<0, 0>>, <<0, 1>>},
               x \in {-Raw, 0}, y \in {0, Raw}}

(***************************************************************************)
(* What the histories record.                                              *)
(***************************************************************************)
Min(a, b) == IF a < b THEN a ELSE b

RECURSIVE Count(_, _)
Count(seq, S) ==
    IF seq = <<>> THEN 0
    ELSE (IF Head(seq) \in S THEN 1 ELSE 0) + Count(Tail(seq), S)

Controls == 0 .. 7

HatOf(c) ==
    CASE c = 4 -> <<0, 1>> [] c = 5 -> <<1, 0>> [] c = 6 -> <<0, -1>> [] OTHER -> <<-1, 0>>

\* control c (buttons Y, B, A, X for 0..3, the hat directions for 4..7) reads pressed
Held(in, c) ==
    CASE c = 0 -> in.BTN_Y = 1
      [] c = 1 -> in.BTN_B = 1
      [] c = 2 -> in.BTN_A = 1
      [] c = 3 -> in.BTN_X = 1
      [] OTHER -> in.ABS_HAT0 = HatOf(c)

PresetCmds(c) == {<<"preset_recall", c>>, <<"preset_set", c>>}

Axes == {"pan", "tilt", "zoom"}

AxisValue(in, a) ==
    CASE a = "pan" -> ABS_JOY_L_X(in) [] a = "tilt" -> ABS_JOY_L_Y(in) [] OTHER -> ABS_JOY_R_Y(in)

IsStart(cmd, ops) == Len(cmd) = 2 /\ cmd[1] \in ops

StartOps(a) ==
    CASE a = "pan" -> {"left", "right"}
      [] a = "tilt" -> {"up", "down"}
      [] a = "pantilt" -> {"left", "right", "up", "down"}
      [] OTHER -> {"zoom_in", "zoom_out"}

StopCmd(a) == IF a \in {"pan", "tilt", "pantilt"} THEN <<"stop">> ELSE <<"zoom_stop">>

RECURSIVE CountStarts(_, _)
CountStarts(seq, ops) ==
    IF seq = <<>> THEN 0
    ELSE (IF IsStart(Head(seq), ops) THEN 1 ELSE 0) + CountStarts(Tail(seq), ops)

NoExcursion == [phase |-> "none", starts |-> 0, stops |-> 0]

\* the tally of axis a's excursion after an iteration that read `in` and sent `cmds`
ExcNext(e, in, cmds, a) ==
    LET rest == AxisValue(in, a) = JOYSTICK_REST_VAL
        from == IF e.phase = "moving" THEN e ELSE NoExcursion
    IN  IF rest
        THEN IF e.phase = "moving"
             THEN [phase |-> "back",
                   starts |-> Min(MaxCount, from.starts + CountStarts(cmds, StartOps(a))),
                   stops |-> Min(MaxCount, from.stops + Count(cmds, {StopCmd(a)}))]
             ELSE [NoExcursion EXCEPT !.phase = "rest"]
        ELSE IF e.phase = "none"
             THEN NoExcursion
             ELSE [phase |-> "moving",
                   starts |-> Min(MaxCount, from.starts + CountStarts(cmds, StartOps(a))),
                   stops |-> Min(MaxCount, from.stops + Count(cmds, {StopCmd(a)}))]

MotionGroups == {"pantilt", "zoom"}

\* <<moving, unstopped>> of group g after the commands cmds, sent in this order
RECURSIVE Track(_, _, _, _)
Track(mv, bad, cmds, g) ==
    IF cmds = <<>> THEN <<mv, bad>>
    ELSE IF IsStart(Head(cmds), StartOps(g))
         THEN Track(TRUE, bad \/ mv, Tail(cmds), g)
         ELSE IF Head(cmds) = StopCmd(g)
              THEN Track(FALSE, bad, Tail(cmds), g)
              ELSE Track(mv, bad, Tail(cmds), g)

\* the latest command of group g after the commands cmds, sent in this order
RECURSIVE Latest(_, _, _)
Latest(last, cmds, g) ==
    IF cmds = <<>> THEN last
    ELSE IF IsStart(Head(cmds), StartOps(g)) \/ Head(cmds) = StopCmd(g)
         THEN Latest(Head(cmds), Tail(cmds), g)
         ELSE Latest(last, Tail(cmds), g)

(***************************************************************************)
(* main: one iteration of "while not done".  events is what pg.event.get() *)
(* returned (at most one event), in is what the joystick reads.            *)
(***************************************************************************)
Locals == [f \in LatchNames |-> block[f]] @@
          [MAX_MOVEMENT_SPEED |-> MAX_MOVEMENT_SPEED, MAX_ZOOM_SPEED |-> MAX_ZOOM_SPEED,
           sent |-> <<>>]

Iteration(ev, in) ==
    /\ ~done
    /\ done' = (ev = "QUIT")
    /\ joysticks' = CASE ev = "JOYDEVICEADDED" -> joysticks \cup {1}
                      [] ev = "JOYDEVICEREMOVED" -> joysticks \ {1}
                      [] OTHER -> joysticks
    /\ IF joysticks' = {}
       THEN /\ sent' = <<>>
            /\ polled' = FALSE
            /\ same' = FALSE
            /\ unstopped' = [g \in MotionGroups |-> FALSE]
            /\ UNCHANGED <<block, MAX_MOVEMENT_SPEED, MAX_ZOOM_SPEED, sample, menuZero,
                           runRecall, menuMoved, exc, moving, lastCmd>>
       ELSE \E r \in {PollBody(Locals, in)} :
                /\ block' = [f \in LatchNames |-> r[f]]
                /\ MAX_MOVEMENT_SPEED' = r.MAX_MOVEMENT_SPEED
                /\ MAX_ZOOM_SPEED' = r.MAX_ZOOM_SPEED
                /\ sent' = r.sent
                /\ sample' = in
                /\ polled' = TRUE
                /\ menuZero' = (menuZero /\ in.MENU = 0)
                /\ runRecall' = [i \in 0 .. 3 |->
                                   IF Held(in, i)
                                   THEN Min(MaxCount, runRecall[i]
                                            + Count(r.sent, {<<"preset_recall", i>>}))
                                   ELSE 0]
                /\ menuMoved' = [c \in Controls |->
                                   /\ Held(in, c)
                                   /\ Held(sample, c)
                                   /\ (menuMoved[c] \/ in.MENU # sample.MENU)]
                /\ same' = (polled /\ in = sample)
                /\ exc' = [a \in Axes |-> ExcNext(exc[a], in, r.sent, a)]
                /\ moving' = [g \in MotionGroups |-> Track(moving[g], FALSE, r.sent, g)[1]]
                /\ unstopped' = [g \in MotionGroups |->
                                   Track(moving[g], FALSE, r.sent, g)[2]]
                /\ lastCmd' = [g \in MotionGroups |-> Latest(lastCmd[g], r.sent, g)]
    /\ UNCHANGED focus
    /\ UNCHANGED codecVars
    /\ UNCHANGED inquiryVars

\* an iteration whose event list is empty
Poll == \E in \in Samples(focus) : Iteration("none", in) /\ UNCHANGED sessionVars

\* an iteration that handles JOYDEVICEADDED
JoyDeviceAdded ==
    /\ 1 \notin joysticks
    /\ \E in \in Samples(focus) : Iteration("JOYDEVICEADDED", in)
    /\ UNCHANGED sessionVars

\* an iteration that handles JOYDEVICEREMOVED (pygame sends it for a connected joystick)
JoyDeviceRemoved ==
    /\ 1 \in joysticks
    /\ \E in \in Samples(focus) : Iteration("JOYDEVICEREMOVED", in)
    /\ UNCHANGED sessionVars

\* an iteration that handles QUIT
Quit == \E in \in Samples(focus) : Iteration("QUIT", in) /\ UNCHANGED sessionVars

\* no builder is under way, and nothing was handed to the transport
NoCall == [op |-> "none", args |-> <<>>]

NoWire == [raised |-> FALSE, com |-> <<>>]

\* the state main starts in, and nothing called nor asked of the camera
InitState ==
    /\ joysticks = {}
    /\ done = FALSE
    /\ block = [f \in LatchNames |-> FALSE]
    /\ MAX_MOVEMENT_SPEED = 7
    /\ MAX_ZOOM_SPEED = 7
    /\ sent = <<>>
    /\ sample = Neutral
    /\ polled = FALSE
    /\ menuZero = TRUE
    /\ runRecall = [i \in 0 .. 3 |-> 0]
    /\ menuMoved = [c \in Controls |-> FALSE]
    /\ same = FALSE
    /\ exc = [a \in Axes |-> NoExcursion]
    /\ moving = [g \in MotionGroups |-> FALSE]
    /\ lastCmd = [g \in MotionGroups |-> <<>>]
    /\ unstopped = [g \in MotionGroups |-> FALSE]
    /\ call = NoCall
    /\ wire = NoWire
    /\ wrote = "none"
    /\ ret = "none"
    /\ sup = "main"
    /\ ended = "none"
    /\ failed = FALSE
    /\ lost = {}
    /\ resent = FALSE
    /\ inbuf = <<>>
    /\ inq_at = "idle"
    /\ inq_x = <<>>
    /\ answer = 0
    /\ heard = <<>>
    /\ steps = <<>>
    /\ fresh = FALSE
    /\ staleRead = FALSE

Init == InitState /\ focus \in FocusGroups

Next == Poll \/ JoyDeviceAdded \/ JoyDeviceRemoved \/ Quit

Spec == Init /\ [][Next]_vars

(***************************************************************************)
(* __main__: the supervisor loop "while(True): try: main(port) except:     *)
(* time.sleep(1); continue", around a main whose serial writes may fail.   *)
(* Camera.command catches the exception of a failed write, so the body of  *)
(* the loop runs on as it does after a write that went through.            *)
(***************************************************************************)
\* a command without its speed
Key(cmd) == IF cmd[1] \in {"preset_recall", "preset_set"} THEN cmd ELSE <<cmd[1]>>

\* the control that command k belongs to still reads as it did when k was sent
HeldFor(k, in) ==
    CASE k[1] \in {"preset_recall", "preset_set"} -> Held(in, k[2])
      [] k[1] = "left" -> ABS_JOY_L_X(in) < JOYSTICK_REST_VAL
      [] k[1] = "right" -> ABS_JOY_L_X(in) > JOYSTICK_REST_VAL
      [] k[1] = "up" -> ABS_JOY_L_Y(in) < JOYSTICK_REST_VAL
      [] k[1] = "down" -> ABS_JOY_L_Y(in) > JOYSTICK_REST_VAL
      [] k[1] = "zoom_in" -> ABS_JOY_R_Y(in) < JOYSTICK_REST_VAL
      [] k[1] = "zoom_out" -> ABS_JOY_R_Y(in) > JOYSTICK_REST_VAL
      [] k[1] = "stop" -> ABS_JOY_L_X(in) = JOYSTICK_REST_VAL
                             /\ ABS_JOY_L_Y(in) = JOYSTICK_REST_VAL
      [] OTHER -> ABS_JOY_R_Y(in) = JOYSTICK_REST_VAL

\* one iteration of main under the supervisor; the serial writes of the
\* iteration either all go through or all fail
SessionIteration(ev, in) ==
    /\ sup = "main"
    /\ Iteration(ev, in)
    /\ \E ok \in (IF sent' = <<>> THEN {TRUE} ELSE BOOLEAN) :
           /\ failed' = ~ok
           /\ IF joysticks' = {}
              THEN resent' = FALSE /\ lost' = lost
              ELSE LET still == {k \in lost : HeldFor(k, in)}
                   IN  /\ resent' = \E i \in 1 .. Len(sent') : Key(sent'[i]) \in still
                       /\ lost' = still \cup (IF ok THEN {}
                                               ELSE {Key(sent'[i]) : i \in 1 .. Len(sent')})
    /\ sup' = IF ev = "QUIT" THEN "returned" ELSE "main"
    /\ ended' = IF ev = "QUIT" THEN "quit" ELSE ended

SessionPoll == \E in \in Samples(focus) : SessionIteration("none", in)

SessionJoyDeviceAdded ==
    1 \notin joysticks /\ \E in \in Samples(focus) : SessionIteration("JOYDEVICEADDED", in)

SessionJoyDeviceRemoved ==
    1 \in joysticks /\ \E in \in Samples(focus) : SessionIteration("JOYDEVICEREMOVED", in)

\* QUIT: done = True, the loop ends after this iteration and main returns
SessionQuit == \E in \in Samples(focus) : SessionIteration("QUIT", in)

\* an exception leaves main (KeyboardInterrupt among them): "except:" catches it
Interrupt ==
    /\ sup = "main"
    /\ ~done
    /\ sup' = "caught"
    /\ ended' = "raised"
    /\ failed' = FALSE
    /\ resent' = FALSE
    /\ sent' = <<>>
    /\ UNCHANGED <<joysticks, done, block, MAX_MOVEMENT_SPEED, MAX_ZOOM_SPEED, sample,
                   polled, menuZero, runRecall, menuMoved, same, exc, moving, unstopped,
                   lastCmd>>
    /\ UNCHANGED <<focus, lost>>
    /\ UNCHANGED codecVars
    /\ UNCHANGED inquiryVars

\* the supervisor calls main(port) again: after main returned, or after the
\* sleep that follows a caught exception.  The camera keeps doing what it did.
MainAgain ==
    /\ sup \in {"returned", "caught"}
    /\ sup' = "main"
    /\ joysticks' = {}
    /\ done' = FALSE
    /\ block' = [f \in LatchNames |-> FALSE]
    /\ MAX_MOVEMENT_SPEED' = 7
    /\ MAX_ZOOM_SPEED' = 7
    /\ sent' = <<>>
    /\ sample' = Neutral
    /\ polled' = FALSE
    /\ menuZero' = TRUE
    /\ runRecall' = [i \in 0 .. 3 |-> 0]
    /\ menuMoved' = [c \in Controls |-> FALSE]
    /\ same' = FALSE
    /\ exc' = [a \in Axes |-> NoExcursion]
    /\ unstopped' = [g \in MotionGroups |-> FALSE]
    /\ failed' = FALSE
    /\ lost' = {}
    /\ resent' = FALSE
    /\ UNCHANGED <<moving, lastCmd, ended, focus>>
    /\ UNCHANGED codecVars
    /\ UNCHANGED inquiryVars

\* the operator works button Y, the pan stick and the zoom stick
InitSession == InitState /\ focus = "session"

NextSession ==
    \/ SessionPoll \/ SessionJoyDeviceAdded \/ SessionJoyDeviceRemoved \/ SessionQuit
    \/ Interrupt \/ MainAgain

SpecSession == InitSession /\ [][NextSession]_vars

(***************************************************************************)
(* main with two joysticks.  "for joystick in joysticks.values()" runs the *)
(* body once per joystick, in the order they were added, on the same       *)
(* latches.  The operator works one of the two (focus tells which); the    *)
(* other lies untouched and reads neutral all the time.                    *)
(***************************************************************************)
\* the joystick the operator works
Operator == IF focus = "first" THEN 1 ELSE 2

\* what joystick j reads in an iteration where the operator's reads `in`
SampleOf(j, in) == IF j = Operator THEN in ELSE Neutral

\* the body of the for loop over the joysticks js
PairBody(s, in, js) ==
    LET s1 == IF 1 \in js THEN PollBody(s, SampleOf(1, in)) ELSE s
    IN  IF 2 \in js THEN PollBody(s1, SampleOf(2, in)) ELSE s1

\* one iteration of "while not done" with up to two joysticks; the histories
\* follow the operator's joystick
PairIteration(ev, in) ==
    /\ ~done
    /\ done' = (ev = "QUIT")
    /\ joysticks' = IF ev = "JOYDEVICEADDED"
                    THEN joysticks \cup {Cardinality(joysticks) + 1}
                    ELSE joysticks
    /\ IF joysticks' = {}
       THEN /\ sent' = <<>>
            /\ polled' = FALSE
            /\ same' = FALSE
            /\ unstopped' = [g \in MotionGroups |-> FALSE]
            /\ UNCHANGED <<block, MAX_MOVEMENT_SPEED, MAX_ZOOM_SPEED, sample, menuZero,
                           runRecall, menuMoved, exc, moving, lastCmd>>
       ELSE \E r \in {PairBody(Locals, in, joysticks')} :
                /\ block' = [f \in LatchNames |-> r[f]]
                /\ MAX_MOVEMENT_SPEED' = r.MAX_MOVEMENT_SPEED
                /\ MAX_ZOOM_SPEED' = r.MAX_ZOOM_SPEED
                /\ sent' = r.sent
                /\ sample' = in
                /\ polled' = TRUE
                /\ menuZero' = (menuZero /\ in.MENU = 0)
                /\ runRecall' = [i \in 0 .. 3 |->
                                   IF Held(in, i)
                                   THEN Min(MaxCount, runRecall[i]
                                            + Count(r.sent, {<<"preset_recall", i>>}))
                                   ELSE 0]
                /\ menuMoved' = [c \in Controls |->
                                   /\ Held(in, c)
                                   /\ Held(sample, c)
                                   /\ (menuMoved[c] \/ in.MENU # sample.MENU)]
                /\ same' = (polled /\ in = sample)
                /\ exc' = [a \in Axes |-> ExcNext(exc[a], in, r.sent, a)]
                /\ moving' = [g \in MotionGroups |-> Track(moving[g], FALSE, r.sent, g)[1]]
                /\ unstopped' = [g \in MotionGroups |->
                                   Track(moving[g], FALSE, r.sent, g)[2]]
                /\ lastCmd' = [g \in MotionGroups |-> Latest(lastCmd[g], r.sent, g)]
    /\ UNCHANGED focus
    /\ UNCHANGED sessionVars
    /\ UNCHANGED codecVars
    /\ UNCHANGED inquiryVars

\* the operator touches the controls once both joysticks are connected
PairSamples(js) == IF js = {1, 2} THEN Samples("session") ELSE {Neutral}

PairPoll == \E in \in PairSamples(joysticks) : PairIteration("none", in)

PairJoyDeviceAdded ==
    /\ Cardinality(joysticks) < 2
    /\ \E in \in PairSamples(joysticks \cup {Cardinality(joysticks) + 1}) :
           PairIteration("JOYDEVICEADDED", in)

PairQuit == \E in \in PairSamples(joysticks) : PairIteration("QUIT", in)

InitPair == InitState /\ focus \in {"first", "second"}

NextPair == PairPoll \/ PairJoyDeviceAdded \/ PairQuit

SpecPair == InitPair /\ [][NextPair]_vars

(***************************************************************************)
(* visca.py: the command builders of class PTZ.  A string is a sequence of *)
(* one-character strings.                                                  *)
(***************************************************************************)
HexDigits == <<"0", "1", "2", "3", "4", "5", "6", "7", "8", "9",
               "A", "B", "C", "D", "E", "F">>

\* the digits hex() and hexlify() write
LowerDigits == <<"0", "1", "2", "3", "4", "5", "6", "7", "8", "9",
                 "a", "b", "c", "d", "e", "f">>

\* the characters binascii.unhexlify accepts
HexChars == {HexDigits[i] : i \in 1 .. 16} \cup {LowerDigits[i] : i \in 1 .. 16}

RECURSIVE NatDigits(_, _)
NatDigits(n, base) ==
    IF n < base THEN <<HexDigits[n + 1]>>
    ELSE NatDigits(n \div base, base) \o <<HexDigits[(n % base) + 1]>>

\* "%X" % n
PyHexX(n) == IF n < 0 THEN <<"-">> \o NatDigits(-n, 16) ELSE NatDigits(n, 16)

\* str(n)
PyStr(n) == IF n < 0 THEN <<"-">> \o NatDigits(-n, 10) ELSE NatDigits(n, 10)

DigitValue(ch) == (CHOOSE i \in 1 .. 16 : HexDigits[i] = ch) - 1

RECURSIVE HexValue(_)
HexValue(h) ==
    IF h = <<>> THEN 0 ELSE 16 * HexValue(SubSeq(h, 1, Len(h) - 1)) + DigitValue(h[Len(h)])

\* int(h, 16) of a string made by "%X"
PyInt16(h) == IF Head(h) = "-" THEN -HexValue(Tail(h)) ELSE HexValue(h)

IsPrefix(p, s) == Len(p) <= Len(s) /\ SubSeq(s, 1, Len(p)) = p

\* text.replace(old, new), old not empty
RECURSIVE PyReplace(_, _, _)
PyReplace(text, old, new) ==
    IF text = <<>> THEN <<>>
    ELSE IF IsPrefix(old, text)
         THEN new \o PyReplace(SubSeq(text, Len(old) + 1, Len(text)), old, new)
         ELSE <<Head(text)>> \o PyReplace(Tail(text), old, new)

\* PTZ.multi_replace: one pass over text; at each place the first key of rep
\* (a sequence of <<key, value>>) that matches is replaced by its value
RECURSIVE multi_replace(_, _)
multi_replace(text, rep) ==
    IF text = <<>> THEN <<>>
    ELSE LET hits == {i \in 1 .. Len(rep) : IsPrefix(rep[i][1], text)}
         IN  IF hits = {}
             THEN <<Head(text)>> \o multi_replace(Tail(text), rep)
             ELSE LET i == CHOOSE j \in hits : \A k \in hits : j <= k
                  IN  rep[i][2] \o multi_replace(
                          SubSeq(text, Len(rep[i][1]) + 1, Len(text)), rep)

\* '0' + h if len(h) < 2 else h
Pad2(h) == IF Len(h) < 2 THEN <<"0">> \o h ELSE h

\* h if len(h) > 3 else ("0" * (4 - len(h))) + h
Pad4(h) == IF Len(h) > 3 THEN h ELSE [i \in 1 .. (4 - Len(h)) |-> "0"] \o h

\* "0" + "0".join(h)
ZeroJoin(h) == [i \in 1 .. 2 * Len(h) |-> IF i % 2 = 1 THEN "0" ELSE h[i \div 2]]

\* PTZ.comm: the string goes to Camera.command, which writes it to the port
comm(com) == [raised |-> FALSE, com |-> com]

\* an exception leaves the builder before anything is written
Raised == [raised |-> TRUE, com |-> <<>>]

\* binascii.unhexlify(com) does not raise
Unhexable(com) == Len(com) % 2 = 0 /\ \A i \in 1 .. Len(com) : com[i] \in HexChars

\* Camera.command: True when unhexlify(), write() and flush() went through,
\* False when one of them raised (the exception is caught and printed)
command(com, ok) == IF ok /\ Unhexable(com) THEN "True" ELSE "False"

\* what PTZ.comm returns: it calls Camera.command and has no return statement
comm_returns(com, ok) == IF command(com, ok) \in {"True", "False"} THEN "None" ELSE "None"

T_preset_recall == 
    <<"8", "1", "0", "1", "0", "4", "3", "F", "0", "2", "P", "P", "F", "F">>

T_preset_set == 
    <<"8", "1", "0", "1", "0", "4", "3", "F", "0", "1", "P", "P", "F", "F">>

\* preset_recall without "num = 255 if num > 255 else num"
preset_recall_unclamped(memory) ==
    LET num == IF memory < 0 THEN 0 ELSE memory
    IN  comm(PyReplace(T_preset_recall, <<"P", "P">>, Pad2(PyHexX(num))))

preset_recall(memory) ==
    LET n1 == IF memory > 255 THEN 255 ELSE memory
        num == IF n1 < 0 THEN 0 ELSE n1
    IN  comm(PyReplace(T_preset_recall, <<"P", "P">>, Pad2(PyHexX(num))))

preset_set(memory) ==
    LET n1 == IF memory > 255 THEN 255 ELSE memory
        num == IF n1 < 0 THEN 0 ELSE n1
    IN  comm(PyReplace(T_preset_set, <<"P", "P">>, Pad2(PyHexX(num))))

T_left == 
    <<"8", "1", "0", "1", "0", "6", "0", "1", "V", "V", "W", "W", "0", "1",
      "0", "3", "F", "F">>

T_right == 
    <<"8", "1", "0", "1", "0", "6", "0", "1", "V", "V", "W", "W", "0", "2",
      "0", "3", "F", "F">>

T_up == 
    <<"8", "1", "0", "1", "0", "6", "0", "1", "V", "V", "W", "W", "0", "3",
      "0", "1", "F", "F">>

T_down == 
    <<"8", "1", "0", "1", "0", "6", "0", "1", "V", "V", "W", "W", "0", "3",
      "0", "2", "F", "F">>

\* left and right: the speed fills VV, str(15) fills WW
left(amount) ==
    comm(PyReplace(PyReplace(T_left, <<"V", "V">>, Pad2(PyHexX(amount))),
                   <<"W", "W">>, PyStr(15)))

right(amount) ==
    comm(PyReplace(PyReplace(T_right, <<"V", "V">>, Pad2(PyHexX(amount))),
                   <<"W", "W">>, PyStr(15)))

\* up and down: str(15) fills VV, the speed fills WW
up(amount) ==
    comm(PyReplace(PyReplace(T_up, <<"V", "V">>, PyStr(15)),
                   <<"W", "W">>, Pad2(PyHexX(amount))))

down(amount) ==
    comm(PyReplace(PyReplace(T_down, <<"V", "V">>, PyStr(15)),
                   <<"W", "W">>, Pad2(PyHexX(amount))))

\* PTZ._move
move(string, a1, a2) ==
    comm(PyReplace(PyReplace(string, <<"V", "V">>, Pad2(PyHexX(a1))),
                   <<"W", "W">>, Pad2(PyHexX(a2))))

T_left_down == 
    <<"8", "1", "0", "1", "0", "6", "0", "1", "V", "V", "W", "W", "0", "1",
      "0", "2", "F", "F">>

T_left_up == 
    <<"8", "1", "0", "1", "0", "6", "0", "1", "V", "V", "W", "W", "0", "1",
      "0", "1", "F", "F">>

T_right_down == 
    <<"8", "1", "0", "1", "0", "6", "0", "1", "V", "V", "W", "W", "0", "2",
      "0", "2", "F", "F">>

T_right_up == 
    <<"8", "1", "0", "1", "0", "6", "0", "1", "V", "V", "W", "W", "0", "2",
      "0", "1", "F", "F">>

left_down(pan, tilt) == move(T_left_down, pan, tilt)

left_up(pan, tilt) == move(T_left_up, pan, tilt)

right_down(pan, tilt) == move(T_right_down, pan, tilt)

right_up(pan, tilt) == move(T_right_up, pan, tilt)

\* the body shared by zoom_in, zoom_out, focus_far and focus_near:
\*   hs = "%X" % amount
\*   hs = 7 if int(hs, 16) > 7 else hs     (hs is now the int 7, or still a str)
\*   hs = 0 if int(hs, 16) < 0 else hs     (int(7, 16) raises TypeError)
\*   s = template.replace('P', hs)         (replace('P', 0) raises TypeError)
SpeedDigit(template, amount) ==
    LET hs == PyHexX(amount)
    IN  IF PyInt16(hs) > 7 THEN Raised
        ELSE IF PyInt16(hs) < 0 THEN Raised
        ELSE comm(PyReplace(template, <<"P">>, hs))

T_zoom_in == 
    <<"8", "1", "0", "1", "0", "4", "0", "7", "2", "P", "F", "F">>

T_zoom_out == 
    <<"8", "1", "0", "1", "0", "4", "0", "7", "3", "P", "F", "F">>

T_focus_far == 
    <<"8", "1", "0", "1", "0", "4", "0", "8", "2", "P", "F", "F">>

T_focus_near == 
    <<"8", "1", "0", "1", "0", "4", "0", "8", "3", "P", "F", "F">>

zoom_in(amount) == SpeedDigit(T_zoom_in, amount)

zoom_out(amount) == SpeedDigit(T_zoom_out, amount)

focus_far(amount) == SpeedDigit(T_focus_far, amount)

focus_near(amount) == SpeedDigit(T_focus_near, amount)

T_relative_position == 
    <<"8", "1", "0", "1", "0", "6", "0", "3", "V", "V", "W", "W", "0", "Y",
      "0", "Y", "0", "Y", "0", "Y", "0", "Z", "0", "Z", "0", "Z", "0", "Z",
      "F", "F">>

\* relative_position with 65535 in place of 65532
relative_position_65535(pan, tilt, amount_pan, amount_tilt, direction_pan, direction_tilt) ==
    LET ap == IF direction_pan # 1 THEN 65535 - amount_pan ELSE amount_pan
        at == IF direction_tilt # 1 THEN 65500 - amount_tilt ELSE amount_tilt
        pan_string == ZeroJoin(Pad4(PyHexX(ap)))
        tilt_string == ZeroJoin(Pad4(PyHexX(at)))
        rep == << <<<<"V", "V">>, IF pan > 9 THEN PyStr(pan) ELSE <<"0">> \o PyStr(pan)>>,
                  <<<<"W", "W">>, IF tilt > 9 THEN PyStr(tilt) ELSE <<"0">> \o PyStr(tilt)>>,
                  <<<<"0", "Y", "0", "Y", "0", "Y", "0", "Y">>, pan_string>>,
                  <<<<"0", "Z", "0", "Z", "0", "Z", "0", "Z">>, tilt_string>> >>
    IN  comm(multi_replace(T_relative_position, rep))

relative_position(pan, tilt, amount_pan, amount_tilt, direction_pan, direction_tilt) ==
    LET ap == IF direction_pan # 1 THEN 65532 - amount_pan ELSE amount_pan
        at == IF direction_tilt # 1 THEN 65500 - amount_tilt ELSE amount_tilt
        pan_string == ZeroJoin(Pad4(PyHexX(ap)))
        tilt_string == ZeroJoin(Pad4(PyHexX(at)))
        rep == << <<<<"V", "V">>, IF pan > 9 THEN PyStr(pan) ELSE <<"0">> \o PyStr(pan)>>,
                  <<<<"W", "W">>, IF tilt > 9 THEN PyStr(tilt) ELSE <<"0">> \o PyStr(tilt)>>,
                  <<<<"0", "Y", "0", "Y", "0", "Y", "0", "Y">>, pan_string>>,
                  <<<<"0", "Z", "0", "Z", "0", "Z", "0", "Z">>, tilt_string>> >>
    IN  comm(multi_replace(T_relative_position, rep))

(***************************************************************************)
(* visca.py: the position setters.  The setters that preserve the other    *)
(* coordinate ask the camera for it; the answer of get_pan, get_tilt or    *)
(* get_zoom is given as [raised, value].                                   *)
(***************************************************************************)
RECURSIVE LowerNat(_)
LowerNat(n) ==
    IF n < 16 THEN <<LowerDigits[n + 1]>>
    ELSE LowerNat(n \div 16) \o <<LowerDigits[(n % 16) + 1]>>

\* hex(n)[2:]: hex(-3) is '-0x3', so a negative n gives 'x3'
PyHexTail(n) == IF n < 0 THEN <<"x">> \o LowerNat(-n) ELSE LowerNat(n)

\* PTZ._zero_pad(num, digit)
zero_pad(num, digit) ==
    IF Len(num) < digit THEN [i \in 1 .. (digit - Len(num)) |-> "0"] \o num ELSE num

\* "return False" before anything is built
Rejected == [raised |-> FALSE, com |-> <<>>]

\* Spread with the least significant digit first
SpreadReversed(p) == <<"0", p[4], "0", p[3], "0", p[2], "0", p[1]>>

\* 0{p[0]}0{p[1]}0{p[2]}0{p[3]}
Spread(p) == <<"0", p[1], "0", p[2], "0", p[3], "0", p[4]>>

\* Wrap with the two's complement offset
Wrap65536(val) == IF val < 0 THEN 65536 + val ELSE val

\* val = 65535 + val if val < 0
Wrap(val) == IF val < 0 THEN 65535 + val ELSE val

\* the types of the values a caller hands to a setter: an int, a float (of
\* the same numeric value), a str (of the digits of that value)
ValueTypes == {"int", "float", "str"}

\* what a setter has done when it returns: its result, after the inquiries
\* (get_pan, get_tilt, get_zoom) it made on the way
Asking(result, asked) == [raised |-> result.raised, com |-> result.com, asked |-> asked]

\* "val < lo or val > hi or type(val) != int": '<' between a str and an int
\* raises TypeError; otherwise the test is true for a value outside lo..hi and
\* for a value that is not an int
range_check(val, typ, lo, hi) ==
    IF typ = "str" THEN "TypeError"
    ELSE IF val < lo \/ val > hi \/ typ # "int" THEN "invalid" ELSE "valid"

set_pan(val, speed, tilt, typ) ==
    IF range_check(val, typ, -32767, 32767) = "TypeError" THEN Asking(Raised, <<>>)
    ELSE IF range_check(val, typ, -32767, 32767) = "invalid" THEN Asking(Rejected, <<>>)
    ELSE IF tilt.raised THEN Asking(Raised, <<"get_tilt">>)
    ELSE LET p == zero_pad(PyHexTail(Wrap(val)), 4)
             t == zero_pad(PyHexTail(tilt.value), 4)
             s == zero_pad(PyHexTail(speed), 2)
         IN  Asking(comm(<<"8", "1", "0", "1", "0", "6", "0", "2">> \o s \o s
                         \o Spread(p) \o Spread(t) \o <<"F", "F">>),
                    <<"get_tilt">>)

set_pan_rel(val, speed, typ) ==
    IF range_check(val, typ, -32767, 32767) = "TypeError" THEN Asking(Raised, <<>>)
    ELSE IF range_check(val, typ, -32767, 32767) = "invalid" THEN Asking(Rejected, <<>>)
    ELSE LET p == zero_pad(PyHexTail(Wrap(val)), 4)
             t == <<"0", "0", "0", "0">>
             s == zero_pad(PyHexTail(speed), 2)
         IN  Asking(comm(<<"8", "1", "0", "1", "0", "6", "0", "3">> \o s \o s
                         \o Spread(p) \o Spread(t) \o <<"F", "F">>),
                    <<>>)

set_tilt(val, speed, pan, typ) ==
    IF range_check(val, typ, -32767, 32767) = "TypeError" THEN Asking(Raised, <<>>)
    ELSE IF range_check(val, typ, -32767, 32767) = "invalid" THEN Asking(Rejected, <<>>)
    ELSE IF pan.raised THEN Asking(Raised, <<"get_pan">>)
    ELSE LET p == zero_pad(PyHexTail(pan.value), 4)
             t == zero_pad(PyHexTail(Wrap(val)), 4)
             s == zero_pad(PyHexTail(speed), 2)
         IN  Asking(comm(<<"8", "1", "0", "1", "0", "6", "0", "2">> \o s \o s
                         \o Spread(p) \o Spread(t) \o <<"F", "F">>),
                    <<"get_pan">>)

\* set_tilt_rel asks get_pan() and then sends '0000' for the pan
set_tilt_rel(val, speed, pan, typ) ==
    IF range_check(val, typ, -32767, 32767) = "TypeError" THEN Asking(Raised, <<>>)
    ELSE IF range_check(val, typ, -32767, 32767) = "invalid" THEN Asking(Rejected, <<>>)
    ELSE IF pan.raised THEN Asking(Raised, <<"get_pan">>)
    ELSE LET p == <<"0", "0", "0", "0">>
             t == zero_pad(PyHexTail(Wrap(val)), 4)
             s == zero_pad(PyHexTail(speed), 2)
         IN  Asking(comm(<<"8", "1", "0", "1", "0", "6", "0", "3">> \o s \o s
                         \o Spread(p) \o Spread(t) \o <<"F", "F">>),
                    <<"get_pan">>)

set_zoom(val, typ) ==
    IF range_check(val, typ, 0, 65535) = "TypeError" THEN Asking(Raised, <<>>)
    ELSE IF range_check(val, typ, 0, 65535) = "invalid" THEN Asking(Rejected, <<>>)
    ELSE LET z == zero_pad(PyHexTail(val), 4)
         IN  Asking(comm(<<"8", "1", "0", "1", "0", "4", "4", "7">> \o Spread(z)
                         \o <<"F", "F">>),
                    <<>>)

\* set_zoom_rel asks get_zoom() in its test (z1), in the branch the test
\* guards (z2) and in the sum (z3)
set_zoom_rel(val, z1, z2, z3, typ) ==
    IF range_check(val, typ, -32767, 32767) = "TypeError" THEN Asking(Raised, <<>>)
    ELSE IF range_check(val, typ, -32767, 32767) = "invalid" THEN Asking(Rejected, <<>>)
    ELSE IF z1.raised THEN Asking(Raised, <<"get_zoom">>)
    ELSE IF val + z1.value < 0 /\ z2.raised THEN Asking(Raised, <<"get_zoom", "get_zoom">>)
    ELSE LET twice == IF val + z1.value < 0 THEN <<"get_zoom", "get_zoom">>
                      ELSE <<"get_zoom">>
             asked == twice \o <<"get_zoom">>
         IN  IF z3.raised THEN Asking(Raised, asked)
             ELSE LET v1 == IF val + z1.value < 0 THEN 0 - z2.value ELSE val
                      v2 == Wrap(z3.value + v1)
                      z == zero_pad(PyHexTail(v2), 4)
                  IN  Asking(comm(<<"8", "1", "0", "1", "0", "4", "4", "7">> \o Spread(z)
                                  \o <<"F", "F">>),
                             asked)

(***************************************************************************)
(* Calls of the command builders, with arguments from bounded sets.        *)
(***************************************************************************)
\* arguments run from -BelowZero ...
BelowZero == 3
\* ... to MaxArgument for a preset index or a speed given alone
MaxArgument == 300
\* ... and to MaxPairSpeed for two speeds given together
MaxPairSpeed == 26
\* amounts lie within AmountSpread of 0 and of each limit
AmountSpread == 2

Arguments == -BelowZero .. MaxArgument

PairSpeeds == -BelowZero .. MaxPairSpeed

RelativeSpeeds == {5, 10}

Directions == {-1, 0, 1}

PanAmounts ==
    (0 .. AmountSpread) \cup {15, 16, 100, 255, 256, 4095, 4096, 32767, 65432}
        \cup ((65532 - AmountSpread) .. 65532)

TiltAmounts ==
    (0 .. AmountSpread) \cup {100, 4096, 65400} \cup ((65500 - AmountSpread) .. 65500)

\* positions run to Beyond past each limit of a setter
Beyond == 2

PositionValues ==
    {-32767, -1, 0, 1, 4660, 32767}
        \cup {-32767 - k : k \in 1 .. Beyond} \cup {32767 + k : k \in 1 .. Beyond}

ZoomValues ==
    {0, 1, 4660, 65535} \cup {-k : k \in 1 .. Beyond} \cup {65535 + k : k \in 1 .. Beyond}

SetterSpeeds == {-1, 5, 24, 25}

\* what an inquiry gives the setter that asks: a position, or an exception
Answers == {[raised |-> FALSE, value |-> v] : v \in {0, 4660, 65535}}
               \cup {[raised |-> TRUE, value |-> 0]}

ZoomAnswers == {[raised |-> FALSE, value |-> v] : v \in {0, 100}}
                   \cup {[raised |-> TRUE, value |-> 0]}

\* a caller runs one builder at a time: the call is made when none is under way
Called(op, args, result) ==
    /\ call = NoCall
    /\ inq_at = "idle"
    /\ call' = [op |-> op, args |-> args]
    /\ wire' = [raised |-> result.raised, com |-> result.com]
    /\ steps' = IF "asked" \in DOMAIN result
                THEN [i \in 1 .. Len(result.asked) |-> <<"inq", result.asked[i]>>]
                ELSE <<>>
    /\ IF result.raised
       THEN wrote' = "none" /\ ret' = "raised"
       ELSE IF result.com = <<>>
            THEN wrote' = "none" /\ ret' = "False"
            ELSE \E ok \in BOOLEAN :
                     /\ wrote' = IF command(result.com, ok) = "True" THEN "ok" ELSE "failed"
                     /\ ret' = comm_returns(result.com, ok)
    /\ UNCHANGED loopVars
    /\ UNCHANGED focus
    /\ UNCHANGED sessionVars
    /\ UNCHANGED <<inbuf, inq_at, inq_x, answer, heard, fresh, staleRead>>

CallPresetRecall == \E m \in Arguments : Called("preset_recall", <<m>>, preset_recall(m))

CallPresetSet == \E m \in Arguments : Called("preset_set", <<m>>, preset_set(m))

CallLeft == \E a \in Arguments : Called("left", <<a>>, left(a))

CallRight == \E a \in Arguments : Called("right", <<a>>, right(a))

CallUp == \E a \in Arguments : Called("up", <<a>>, up(a))

CallDown == \E a \in Arguments : Called("down", <<a>>, down(a))

CallLeftDown == \E a, b \in PairSpeeds : Called("left_down", <<a, b>>, left_down(a, b))

CallLeftUp == \E a, b \in PairSpeeds : Called("left_up", <<a, b>>, left_up(a, b))

CallRightDown == \E a, b \in PairSpeeds : Called("right_down", <<a, b>>, right_down(a, b))

CallRightUp == \E a, b \in PairSpeeds : Called("right_up", <<a, b>>, right_up(a, b))

CallZoomIn == \E a \in Arguments : Called("zoom_in", <<a>>, zoom_in(a))

CallZoomOut == \E a \in Arguments : Called("zoom_out", <<a>>, zoom_out(a))

CallFocusFar == \E a \in Arguments : Called("focus_far", <<a>>, focus_far(a))

CallFocusNear == \E a \in Arguments : Called("focus_near", <<a>>, focus_near(a))

CallRelativePosition ==
    \E p, t \in RelativeSpeeds, ap \in PanAmounts, at \in TiltAmounts, dp, dt \in Directions :
        Called("relative_position", <<p, t, ap, at, dp, dt>>,
               relative_position(p, t, ap, at, dp, dt))

CallSetPan ==
    \E v \in PositionValues, s \in SetterSpeeds, a \in Answers, typ \in ValueTypes :
        Called("set_pan", <<v, s, a, typ>>, set_pan(v, s, a, typ))

CallSetPanRel ==
    \E v \in PositionValues, s \in SetterSpeeds, typ \in ValueTypes :
        Called("set_pan_rel", <<v, s, 0, typ>>, set_pan_rel(v, s, typ))

CallSetTilt ==
    \E v \in PositionValues, s \in SetterSpeeds, a \in Answers, typ \in ValueTypes :
        Called("set_tilt", <<v, s, a, typ>>, set_tilt(v, s, a, typ))

CallSetTiltRel ==
    \E v \in PositionValues, s \in SetterSpeeds, a \in Answers, typ \in ValueTypes :
        Called("set_tilt_rel", <<v, s, a, typ>>, set_tilt_rel(v, s, a, typ))

CallSetZoom ==
    \E v \in ZoomValues, typ \in ValueTypes :
        Called("set_zoom", <<v, 0, 0, typ>>, set_zoom(v, typ))

CallSetZoomRel ==
    \E v \in PositionValues, z1, z2, z3 \in ZoomAnswers, typ \in ValueTypes :
        Called("set_zoom_rel", <<v, 0, z1, typ, z2, z3>>,
               set_zoom_rel(v, z1, z2, z3, typ))

\* the builder returns to its caller
Return ==
    /\ call # NoCall
    /\ inq_at = "idle"
    /\ call' = NoCall
    /\ wire' = NoWire
    /\ wrote' = "none"
    /\ ret' = "none"
    /\ UNCHANGED loopVars
    /\ UNCHANGED focus
    /\ UNCHANGED sessionVars
    /\ steps' = <<>>
    /\ UNCHANGED <<inbuf, inq_at, inq_x, answer, heard, fresh, staleRead>>

InitCodec == Init /\ focus = "mixed"

NextCodec ==
    \/ CallPresetRecall \/ CallPresetSet
    \/ CallLeft \/ CallRight \/ CallUp \/ CallDown
    \/ CallLeftDown \/ CallLeftUp \/ CallRightDown \/ CallRightUp
    \/ CallZoomIn \/ CallZoomOut \/ CallFocusFar \/ CallFocusNear
    \/ CallRelativePosition
    \/ CallSetPan \/ CallSetPanRel \/ CallSetTilt \/ CallSetTiltRel
    \/ CallSetZoom \/ CallSetZoomRel
    \/ Return

SpecCodec == InitCodec /\ [][NextCodec]_vars

(***************************************************************************)
(* visca.py: the inquiries.  The port's input buffer holds the chunks of   *)
(* bytes the camera has sent and read_all() has not yet taken.             *)
(***************************************************************************)
\* chunks the input buffer holds at most
MaxChunks == 2

\* the four bytes 0p 0q 0r 0s of a 16-bit value
NibbleBytes(v) == <<v \div 4096, (v \div 256) % 16, (v \div 16) % 16, v % 16>>

\* the camera's answers: y0 50 0w 0w 0w 0w 0z 0z 0z 0z FF and y0 50 0p 0q 0r 0s FF
PanTiltReply(pan, tilt) == <<144, 80>> \o NibbleBytes(pan) \o NibbleBytes(tilt) \o <<255>>

ZoomReply(zoom) == <<144, 80>> \o NibbleBytes(zoom) \o <<255>>

\* what may arrive at the port: whole answers, and pieces of one
Arrivals ==
    {PanTiltReply(4660, 65535), PanTiltReply(65535, 0), PanTiltReply(0, 4660),
     ZoomReply(4660), <<144, 80, 0, 11>>}

\* binascii.hexlify(data), as the characters of the bytes object
RECURSIVE hexlify(_)
hexlify(data) ==
    IF data = <<>> THEN <<>>
    ELSE <<LowerDigits[(Head(data) \div 16) + 1], LowerDigits[(Head(data) % 16) + 1]>>
             \o hexlify(Tail(data))

\* str(msg) of a bytes object of hexadecimal characters: b'...'
PyStrBytes(chars) == <<"b", "'">> \o chars \o <<"'">>

\* text.replace(old, '')
RECURSIVE PyRemove(_, _)
PyRemove(text, old) ==
    IF text = <<>> THEN <<>>
    ELSE IF IsPrefix(old, text)
         THEN PyRemove(SubSeq(text, Len(old) + 1, Len(text)), old)
         ELSE <<Head(text)>> \o PyRemove(Tail(text), old)

\* msg after lines 104 and 106 of Camera.read: the hexadecimal text of the
\* bytes taken (a text that ends with "b" loses that "b" to replace('b\'', ''))
read_msg(data) == PyRemove(PyRemove(PyStrBytes(hexlify(data)), <<"b", "'">>), <<"'">>)

\* Camera.read(byte), data being what read_all() took.  Lines 105-110 are
\* indented under line 104, which Python does not accept; they are read here
\* at the indentation of line 104.
read(byte, data) ==
    LET msg == read_msg(data)
    IN  IF Len(msg) = byte \/ byte = 0 THEN [i \in 1 .. byte |-> "0"] ELSE msg

\* Camera.reset_input_buffer without the reset
reset_input_buffer_kept(buf) == buf

\* Camera.reset_input_buffer
reset_input_buffer(buf) == <<>>

\* inq's loop left after the first read whatever it gave
inq_loop_once(got) == "decode"

\* inq: "while x == ''" goes on reading until x is not empty
inq_loop(got) == IF got # <<>> THEN "decode" ELSE "read"

\* s[a:b]
PySlice(s, a, b) == SubSeq(s, a + 1, IF b < Len(s) THEN b ELSE Len(s))

\* int(f'{raw[0]}{raw[2]}{raw[4]}{raw[6]}', 16): IndexError on a short raw
FourNibbles(raw) ==
    IF Len(raw) < 7 THEN [raised |-> TRUE, value |-> 0]
    ELSE [raised |-> FALSE,
          value |-> LET d(ch) == IF \E i \in 1 .. 16 : LowerDigits[i] = ch
                                 THEN (CHOOSE i \in 1 .. 16 : LowerDigits[i] = ch) - 1
                                 ELSE DigitValue(ch)
                    IN  4096 * d(raw[1]) + 256 * d(raw[3]) + 16 * d(raw[5]) + d(raw[7])]

\* get_pan, get_tilt and get_zoom, given what inq returned
get_pan(got) == FourNibbles(PySlice(got, 5, 12))

get_tilt(got) == FourNibbles(PySlice(got, 13, 20))

get_zoom(got) == FourNibbles(PySlice(got, 5, 12))

Inquiries == {"get_pan", "get_tilt", "get_zoom", "inq"}

PanTiltInq == <<"8", "1", "0", "9", "0", "6", "1", "2", "F", "F">>

ZoomInq == <<"8", "1", "0", "9", "0", "4", "4", "7", "F", "F">>

\* the arguments inq is called with
InqCom(c) == IF c.op = "get_zoom" THEN ZoomInq ELSE PanTiltInq

InqByte(c) ==
    CASE c.op = "get_zoom" -> 14
      [] c.op = "inq" -> c.args[1]
      [] OTHER -> 22

\* the camera, or the line, puts bytes into the input buffer
Arrive ==
    /\ Len(inbuf) < MaxChunks
    /\ \E data \in Arrivals :
           inbuf' = Append(inbuf, [data |-> data, old |-> inq_at \in {"idle", "reset"}])
    /\ fresh' = (fresh \/ inq_at \in {"command", "read"})
    /\ UNCHANGED <<inq_at, inq_x, answer, heard, steps, staleRead>>
    /\ UNCHANGED loopVars
    /\ UNCHANGED focus
    /\ UNCHANGED sessionVars
    /\ UNCHANGED codecVars

\* get_pan(), get_tilt(), get_zoom() or inq(com, byte) is called
CallInquiry ==
    /\ call = NoCall
    /\ inq_at = "idle"
    /\ \E c \in {[op |-> o, args |-> <<>>] : o \in {"get_pan", "get_tilt", "get_zoom"}}
               \cup {[op |-> "inq", args |-> <<b>>] : b \in {0, 22}} :
           call' = c
    /\ inq_at' = "reset"
    /\ wire' = NoWire
    /\ wrote' = "none"
    /\ ret' = "none"
    /\ inq_x' = <<>>
    /\ answer' = 0
    /\ heard' = <<>>
    /\ steps' = <<>>
    /\ fresh' = FALSE
    /\ staleRead' = FALSE
    /\ UNCHANGED inbuf
    /\ UNCHANGED loopVars
    /\ UNCHANGED focus
    /\ UNCHANGED sessionVars

\* inq: super().reset_input_buffer()
InqReset ==
    /\ inq_at = "reset"
    /\ inbuf' = reset_input_buffer(inbuf)
    /\ steps' = Append(steps, <<"clear">>)
    /\ inq_at' = "command"
    /\ UNCHANGED <<inq_x, answer, heard, fresh, staleRead>>
    /\ UNCHANGED loopVars
    /\ UNCHANGED focus
    /\ UNCHANGED sessionVars
    /\ UNCHANGED codecVars

\* inq: super().command(com), its result dropped
InqCommand ==
    /\ inq_at = "command"
    /\ wire' = comm(InqCom(call))
    /\ \E ok \in BOOLEAN :
           wrote' = IF command(InqCom(call), ok) = "True" THEN "ok" ELSE "failed"
    /\ steps' = Append(steps, <<"write", InqCom(call)>>)
    /\ inq_at' = "read"
    /\ UNCHANGED <<call, ret>>
    /\ UNCHANGED <<inbuf, inq_x, answer, heard, fresh, staleRead>>
    /\ UNCHANGED loopVars
    /\ UNCHANGED focus
    /\ UNCHANGED sessionVars

\* all the bytes of the buffer, in their order of arrival
RECURSIVE Pending(_)
Pending(buf) == IF buf = <<>> THEN <<>> ELSE Head(buf).data \o Pending(Tail(buf))

\* inq: x = super().read(byte), and the test of the loop
InqRead ==
    /\ inq_at = "read"
    /\ inbuf' = <<>>
    /\ heard' = read_msg(Pending(inbuf))
    /\ inq_x' = read(InqByte(call), Pending(inbuf))
    /\ inq_at' = inq_loop(inq_x')
    /\ steps' = IF steps[Len(steps)] = <<"read">> THEN steps ELSE Append(steps, <<"read">>)
    /\ staleRead' = (staleRead \/ \E i \in 1 .. Len(inbuf) : inbuf[i].old)
    /\ UNCHANGED <<answer, fresh>>
    /\ UNCHANGED loopVars
    /\ UNCHANGED focus
    /\ UNCHANGED sessionVars
    /\ UNCHANGED codecVars

\* inq returns x; get_pan, get_tilt and get_zoom decode it.  set_pan has
\* called get_tilt and set_tilt get_pan: they go on to build their command
\* unless the decoding raised.
InqDecode ==
    /\ inq_at = "decode"
    /\ \E r \in {CASE call.op \in {"get_pan", "set_tilt"} -> get_pan(inq_x)
                    [] call.op \in {"get_tilt", "set_pan"} -> get_tilt(inq_x)
                    [] call.op = "get_zoom" -> get_zoom(inq_x)
                    [] OTHER -> [raised |-> FALSE, value |-> 0]} :
           /\ inq_at' = IF call.op \in {"set_pan", "set_tilt"} /\ ~r.raised
                        THEN "build" ELSE "done"
           /\ ret' = CASE r.raised -> "raised"
                       [] call.op \in {"set_pan", "set_tilt"} -> "none"
                       [] call.op = "inq" -> "str"
                       [] OTHER -> "int"
           /\ answer' = r.value
    /\ UNCHANGED <<call, wire, wrote>>
    /\ UNCHANGED <<inbuf, inq_x, heard, steps, fresh, staleRead>>
    /\ UNCHANGED loopVars
    /\ UNCHANGED focus
    /\ UNCHANGED sessionVars

\* the caller goes on
InqReturn ==
    /\ inq_at = "done"
    /\ inq_at' = "idle"
    /\ call' = NoCall
    /\ wire' = NoWire
    /\ wrote' = "none"
    /\ ret' = "none"
    /\ inq_x' = <<>>
    /\ answer' = 0
    /\ heard' = <<>>
    /\ steps' = <<>>
    /\ fresh' = FALSE
    /\ staleRead' = FALSE
    /\ UNCHANGED inbuf
    /\ UNCHANGED loopVars
    /\ UNCHANGED focus
    /\ UNCHANGED sessionVars

InitInquiry == Init /\ focus = "mixed"

NextInquiry ==
    \/ Arrive \/ CallInquiry \/ InqReset \/ InqCommand \/ InqRead \/ InqDecode
    \/ InqReturn

SpecInquiry == InitInquiry /\ [][NextInquiry]_vars

(***************************************************************************)
(* visca.py: set_pan and set_tilt from call to return, the inquiry for the *)
(* other coordinate included.                                              *)
(***************************************************************************)
\* set_pan(val, speed) or set_tilt(val, speed) is called with an int: a val
\* outside the range returns False at once, any other goes to the inquiry
CallSetter ==
    /\ call = NoCall
    /\ inq_at = "idle"
    /\ \E op \in {"set_pan", "set_tilt"}, v \in PositionValues, s \in {5, 24} :
           /\ call' = [op |-> op, args |-> <<v, s, 0, "int">>]
           /\ inq_at' = IF range_check(v, "int", -32767, 32767) = "valid"
                        THEN "reset" ELSE "done"
           /\ ret' = IF range_check(v, "int", -32767, 32767) = "valid"
                     THEN "none" ELSE "False"
    /\ wire' = NoWire
    /\ wrote' = "none"
    /\ inq_x' = <<>>
    /\ answer' = 0
    /\ heard' = <<>>
    /\ steps' = <<>>
    /\ fresh' = FALSE
    /\ staleRead' = FALSE
    /\ UNCHANGED inbuf
    /\ UNCHANGED loopVars
    /\ UNCHANGED focus
    /\ UNCHANGED sessionVars

\* the setter builds its command around the coordinate it was told and
\* hands it to comm
SetterCommand ==
    /\ inq_at = "build"
    /\ \E r \in {IF call.op = "set_pan"
                  THEN set_pan(call.args[1], call.args[2],
                               [raised |-> FALSE, value |-> answer], "int")
                  ELSE set_tilt(call.args[1], call.args[2],
                                [raised |-> FALSE, value |-> answer], "int")} :
           /\ wire' = [raised |-> r.raised, com |-> r.com]
           /\ steps' = Append(steps, <<"write", r.com>>)
           /\ \E ok \in BOOLEAN :
                  /\ wrote' = IF command(r.com, ok) = "True" THEN "ok" ELSE "failed"
                  /\ ret' = comm_returns(r.com, ok)
    /\ inq_at' = "done"
    /\ UNCHANGED call
    /\ UNCHANGED <<inbuf, inq_x, answer, heard, fresh, staleRead>>
    /\ UNCHANGED loopVars
    /\ UNCHANGED focus
    /\ UNCHANGED sessionVars

InitSetter == Init /\ focus = "mixed"

NextSetter ==
    \/ Arrive \/ CallSetter \/ InqReset \/ InqCommand \/ InqRead \/ InqDecode
    \/ SetterCommand \/ InqReturn

SpecSetter == InitSetter /\ [][NextSetter]_vars

(***************************************************************************)
(* The claims about the poll loop.                                         *)
(***************************************************************************)
RecallLatch(c) ==
    CASE c = 0 -> "block_0" [] c = 1 -> "block_1" [] c = 2 -> "block_2" [] c = 3 -> "block_3"
      [] c = 4 -> "block_4" [] c = 5 -> "block_5" [] c = 6 -> "block_6" [] OTHER -> "block_7"

SetLatch(c) ==
    CASE c = 0 -> "block_set_0" [] c = 1 -> "block_set_1" [] c = 2 -> "block_set_2"
      [] c = 3 -> "block_set_3" [] c = 4 -> "block_set_4" [] c = 5 -> "block_set_5"
      [] c = 6 -> "block_set_6" [] OTHER -> "block_set_7"

\* C1: while MENU has read 0 in every sample, a recall button (Y, B, A, X) that
\* reads pressed has caused exactly one preset_recall of its preset since its
\* press began, however many iterations it has been held; a released button
\* starts again from none, so the next press causes exactly one more.
C1_OneRecallPerPress ==
    (polled /\ menuZero) =>
        \A i \in 0 .. 3 : runRecall[i] = IF Held(sample, i) THEN 1 ELSE 0

\* C1 witness: Y held over two iterations in a row, one recall sent for it
C1_Witness ==
    polled /\ menuZero /\ same /\ Held(sample, 0) /\ runRecall[0] = 1 /\ sent = <<>>

\* C2: when an axis is back at a rest sample after an excursion that began at a
\* rest sample, exactly one start command and exactly one stop command were
\* sent during the excursion.
C2_OneStartOneStop ==
    \A a \in Axes : exc[a].phase = "back" => (exc[a].starts = 1 /\ exc[a].stops = 1)

\* C3: once MENU has changed while a preset button or hat direction is held, no
\* recall and no set command is sent for that control until it is released.
C3_NoCommandAfterMenuChange ==
    \A c \in Controls : menuMoved[c] => Count(sent, PresetCmds(c)) = 0

\* C4: at the end of an iteration a recall or set latch is true only while its
\* button is pressed or the hat is in its direction, and a direction or zoom
\* latch only while the axis is on its side.
C4_LatchOnlyWhileHeld ==
    polled =>
        /\ \A c \in Controls :
              (block[RecallLatch(c)] \/ block[SetLatch(c)]) => Held(sample, c)
        /\ block.block_left => ABS_JOY_L_X(sample) < JOYSTICK_REST_VAL
        /\ block.block_right => ABS_JOY_L_X(sample) > JOYSTICK_REST_VAL
        /\ block.block_up => ABS_JOY_L_Y(sample) < JOYSTICK_REST_VAL
        /\ block.block_down => ABS_JOY_L_Y(sample) > JOYSTICK_REST_VAL
        /\ block.block_zoom_in => ABS_JOY_R_Y(sample) < JOYSTICK_REST_VAL
        /\ block.block_zoom_out => ABS_JOY_R_Y(sample) > JOYSTICK_REST_VAL

\* C5: no start command of the pan/tilt pair follows another one with no stop
\* between them, and no zoom_in or zoom_out follows another with no zoom_stop
\* between them.
C5_StopBetweenStarts == \A g \in MotionGroups : ~unstopped[g]

\* C6: an iteration that reads the same sample as the iteration before it
\* sends no command.
C6_HeldInputSendsNothing == same => sent = <<>>

\* C6 witness: a button, the pan axis and the zoom axis held over two iterations
C6_Witness ==
    /\ same
    /\ Held(sample, 0)
    /\ ABS_JOY_L_X(sample) # JOYSTICK_REST_VAL
    /\ ABS_JOY_R_Y(sample) # JOYSTICK_REST_VAL
    /\ block.block_0 /\ block.block_left /\ block.block_zoom_out

(***************************************************************************)
(* The claims about the command builders.                                  *)
(***************************************************************************)
Clamp(v, lo, hi) == IF v < lo THEN lo ELSE IF v > hi THEN hi ELSE v

\* the two uppercase hexadecimal digits of n in 0..255
TwoHex(n) == <<HexDigits[(n \div 16) + 1], HexDigits[(n % 16) + 1]>>

\* a 16-bit value, one nibble per byte, most significant first
Nibbles(v) ==
    <<"0", HexDigits[(v \div 4096) + 1], "0", HexDigits[((v \div 256) % 16) + 1],
      "0", HexDigits[((v \div 16) % 16) + 1], "0", HexDigits[(v % 16) + 1]>>

Field(com, from, to) == IF Len(com) >= to THEN SubSeq(com, from, to) ELSE <<"short">>

\* C7: preset_recall(m) sends 8101043F02PPFF and preset_set(m) sends
\* 8101043F01PPFF, PP being the two uppercase hex digits of m clamped to
\* 0..255; preset_recall(300) sends 8101043F02FFFF.
C7_PresetClamped ==
    /\ call.op = "preset_recall" =>
          wire = [raised |-> FALSE,
                  com |-> <<"8", "1", "0", "1", "0", "4", "3", "F", "0", "2">>
                          \o TwoHex(Clamp(call.args[1], 0, 255)) \o <<"F", "F">>]
    /\ call.op = "preset_set" =>
          wire = [raised |-> FALSE,
                  com |-> <<"8", "1", "0", "1", "0", "4", "3", "F", "0", "1">>
                          \o TwoHex(Clamp(call.args[1], 0, 255)) \o <<"F", "F">>]
    /\ (call.op = "preset_recall" /\ call.args = <<300>>) =>
          wire.com = <<"8", "1", "0", "1", "0", "4", "3", "F", "0", "2", "F", "F", "F", "F">>

\* C7 witness: preset_recall(300) has sent what preset_recall(255) sends
C7_Witness ==
    /\ call = [op |-> "preset_recall", args |-> <<300>>]
    /\ wire = preset_recall(255)
    /\ Field(wire.com, 11, 12) = <<"F", "F">>

\* C8: every motion command carries its speed clamped to 0..24 as two hex
\* digits (the pan speed in the fifth byte, the tilt speed in the sixth).
C8_SpeedClamped ==
    /\ call.op \in {"left", "right"} =>
          (~wire.raised /\ Len(wire.com) = 18
              /\ Field(wire.com, 9, 10) = TwoHex(Clamp(call.args[1], 0, 24)))
    /\ call.op \in {"up", "down"} =>
          (~wire.raised /\ Len(wire.com) = 18
              /\ Field(wire.com, 11, 12) = TwoHex(Clamp(call.args[1], 0, 24)))
    /\ call.op \in {"left_up", "left_down", "right_up", "right_down"} =>
          (~wire.raised /\ Len(wire.com) = 18
              /\ Field(wire.com, 9, 10) = TwoHex(Clamp(call.args[1], 0, 24))
              /\ Field(wire.com, 11, 12) = TwoHex(Clamp(call.args[2], 0, 24)))

\* C9: zoom_in, zoom_out, focus_near and focus_far complete for every integer
\* speed, and the speed digit of the command is the speed clamped to 0..7.
C9_SpeedDigitClamped ==
    call.op \in {"zoom_in", "zoom_out", "focus_near", "focus_far"} =>
        (~wire.raised /\ Len(wire.com) = 12
            /\ wire.com[10] = HexDigits[Clamp(call.args[1], 0, 7) + 1])

PanField(com) == Field(com, 13, 20)

TiltField(com) == Field(com, 21, 28)

DeclaredLen(op) ==
    CASE op \in {"preset_recall", "preset_set"} -> 14
      [] op \in {"left", "right", "up", "down",
                 "left_down", "left_up", "right_down", "right_up"} -> 18
      [] op \in {"zoom_in", "zoom_out", "focus_far", "focus_near"} -> 12
      [] op \in {"set_zoom", "set_zoom_rel"} -> 18
      [] OTHER -> 30

CommandOps ==
    {"preset_recall", "preset_set", "left", "right", "up", "down",
     "left_down", "left_up", "right_down", "right_up",
     "zoom_in", "zoom_out", "focus_far", "focus_near", "relative_position",
     "set_pan", "set_pan_rel", "set_tilt", "set_tilt_rel", "set_zoom", "set_zoom_rel"}

\* C11: whatever a command operation hands to the transport is an even-length
\* string of hexadecimal digits that begins with 81 and ends with FF, and has
\* the length its fields' declared widths give it.
C11_CommandsWellFormed ==
    (call.op \in CommandOps /\ ~wire.raised /\ wire.com # <<>>) =>
        /\ Len(wire.com) % 2 = 0
        /\ \A i \in 1 .. Len(wire.com) : wire.com[i] \in HexChars
        /\ Len(wire.com) >= 4
        /\ SubSeq(wire.com, 1, 2) = <<"8", "1">>
        /\ SubSeq(wire.com, Len(wire.com) - 1, Len(wire.com)) = <<"F", "F">>
        /\ Len(wire.com) = DeclaredLen(call.op)

Setters == {"set_pan", "set_pan_rel", "set_tilt", "set_tilt_rel", "set_zoom", "set_zoom_rel"}

\* the valid range of the position a setter takes
RangeLow(op) == IF op = "set_zoom" THEN 0 ELSE -32767

RangeHigh(op) == IF op = "set_zoom" THEN 65535 ELSE 32767

\* the 16-bit value of four 0-prefixed nibble bytes, in either letter case
Unpack(field) ==
    LET d(ch) == IF \E i \in 1 .. 16 : HexDigits[i] = ch
                 THEN (CHOOSE i \in 1 .. 16 : HexDigits[i] = ch) - 1
                 ELSE (CHOOSE i \in 1 .. 16 : LowerDigits[i] = ch) - 1
    IN  4096 * d(field[2]) + 256 * d(field[4]) + 16 * d(field[6]) + d(field[8])

\* where the position given to the setter lies in its command, from the end
SetterField(op, com) ==
    CASE op \in {"set_pan", "set_pan_rel"} -> SubSeq(com, Len(com) - 17, Len(com) - 10)
      [] op \in {"set_tilt", "set_tilt_rel"} -> SubSeq(com, Len(com) - 9, Len(com) - 2)
      [] OTHER -> SubSeq(com, Len(com) - 9, Len(com) - 2)

\* C12: a setter given a position outside its valid range is not rejected: it
\* sends the command of the position clamped to the nearest bound of the range.
C12_SetterClamps ==
    (call.op \in Setters
        /\ call.args[4] = "int"
        /\ (call.args[1] < RangeLow(call.op) \/ call.args[1] > RangeHigh(call.op))) =>
        /\ ret # "False"
        /\ ~wire.raised
        /\ Len(wire.com) >= 18
        /\ call.op # "set_zoom_rel" =>
              Unpack(SetterField(call.op, wire.com))
                  = Wrap(Clamp(call.args[1], RangeLow(call.op), RangeHigh(call.op)))

\* C14: the caller of a command operation receives False when the transport
\* write of its command failed and True when it went through.
C14_CallerLearnsOutcome ==
    call.op \in CommandOps =>
        /\ wrote = "failed" => ret = "False"
        /\ wrote = "ok" => ret = "True"

(***************************************************************************)
(* The claims about the inquiries.                                         *)
(***************************************************************************)
Values16 == {0, 4660, 65535}

\* C13: when the answer read has the expected length and carries v in the pan
\* field, get_pan returns v; get_tilt returns what the tilt field carries, and
\* get_zoom what the zoom answer carries.
C13_InquiryRoundTrip ==
    inq_at = "done" =>
        /\ (call.op = "get_pan"
               /\ \E v, w \in Values16 : heard = hexlify(PanTiltReply(v, w))) =>
              (ret = "int" /\ answer = Unpack(SubSeq(heard, 5, 12)))
        /\ (call.op = "get_tilt"
               /\ \E v, w \in Values16 : heard = hexlify(PanTiltReply(v, w))) =>
              (ret = "int" /\ answer = Unpack(SubSeq(heard, 13, 20)))
        /\ (call.op = "get_zoom" /\ \E v \in Values16 : heard = hexlify(ZoomReply(v))) =>
              (ret = "int" /\ answer = Unpack(SubSeq(heard, 5, 12)))

\* C19: inq returns only a response that is not empty, read from bytes that
\* arrived after it cleared the buffer: while none arrive it stays in its
\* loop, whether or not its write went through.
C19_InqReturnsOnlyData ==
    inq_at \in {"decode", "done"} => (inq_x # <<>> /\ fresh)

\* C19 witness: the write failed, nothing has arrived, and inq has read and
\* is about to read again
C19_Witness ==
    /\ inq_at = "read"
    /\ wrote = "failed"
    /\ ~fresh
    /\ inq_x = <<>>
    /\ steps[Len(steps)] = <<"read">>

\* C20: an inquiry clears the input buffer, then writes its opcode (81090612FF
\* for pan and tilt, 81090447FF for zoom), then reads; nothing is read before
\* the write, and no byte that arrived before the clear is read.
C20_ClearWriteRead ==
    /\ ~staleRead
    /\ call.op \in Inquiries =>
          /\ Len(steps) <= 3
          /\ Len(steps) >= 1 => steps[1] = <<"clear">>
          /\ Len(steps) >= 2 =>
                steps[2] = <<"write", IF call.op = "get_zoom" THEN ZoomInq ELSE PanTiltInq>>
          /\ Len(steps) >= 3 => steps[3] = <<"read">>
          /\ inq_at \in {"decode", "done"} => Len(steps) = 3

\* C20 witness: get_zoom has returned after bytes of before its call were cleared
C20_Witness ==
    /\ inq_at = "done"
    /\ call.op = "get_zoom"
    /\ steps = <<<<"clear">>, <<"write", ZoomInq>>, <<"read">>>>
    /\ ret = "int"
    /\ answer = 4660

(***************************************************************************)
(* The claims about the session: failed writes, its end, its speeds.       *)
(***************************************************************************)
\* the latch that the section sending cmd sets after the send
LatchOf(cmd) ==
    CASE cmd[1] = "preset_recall" -> RecallLatch(cmd[2])
      [] cmd[1] = "preset_set" -> SetLatch(cmd[2])
      [] cmd[1] = "left" -> "block_left"
      [] cmd[1] = "right" -> "block_right"
      [] cmd[1] = "up" -> "block_up"
      [] cmd[1] = "down" -> "block_down"
      [] cmd[1] = "zoom_in" -> "block_zoom_in"
      [] cmd[1] = "zoom_out" -> "block_zoom_out"
      [] cmd[1] = "stop" -> "block_rest"
      [] OTHER -> "block_zoom_rest"

\* C15: an iteration whose serial writes failed leaves the loop running with
\* the latch of every command it tried to send armed, and no later iteration
\* sends such a command again while its control has been held ever since.
C15_FailedWriteSwallowed ==
    /\ ~resent
    /\ failed =>
          /\ sup = "main" \/ done
          /\ \A i \in 1 .. Len(sent) : block[LatchOf(sent[i])]

\* C15 witness: the write of preset_recall(0) and of left failed, button Y and
\* the stick are still held, and the iteration after it has sent nothing
C15_Witness ==
    /\ sup = "main"
    /\ polled
    /\ ~failed
    /\ {<<"preset_recall", 0>>, <<"left">>} \subseteq lost
    /\ Held(sample, 0)
    /\ ABS_JOY_L_X(sample) < JOYSTICK_REST_VAL
    /\ sent = <<>>
    /\ block.block_0
    /\ block.block_left

\* C16: once main has ended on a QUIT event or on an exception, it is not
\* running again: the session goes to its teardown.
C16_QuitEndsSession == ended \in {"quit", "raised"} => sup # "main"

\* C17: when the loop has ended (main returned after QUIT, an exception left
\* main, or the joystick was removed), no pan/tilt or zoom motion that the loop
\* started is left without its stop command.
C17_StoppedBeforeEnd ==
    (sup \in {"returned", "caught"} \/ joysticks = {}) =>
        \A g \in MotionGroups : ~moving[g]

\* C18: every left, right, up and down the loop sends carries a speed from 1
\* to the pan/tilt ceiling chosen in the same iteration, and every zoom_in and
\* zoom_out a speed from 1 to the zoom ceiling chosen in it.
C18_SpeedWithinTier ==
    \A i \in 1 .. Len(sent) :
        /\ IsStart(sent[i], StartOps("pantilt")) =>
              (sent[i][2] >= 1 /\ sent[i][2] <= MAX_MOVEMENT_SPEED)
        /\ IsStart(sent[i], StartOps("zoom")) =>
              (sent[i][2] >= 1 /\ sent[i][2] <= MAX_ZOOM_SPEED)

\* C18 witness: left sent at the low ceiling, with both tier controls released
C18_Witness ==
    /\ polled
    /\ sample.L1 = 0
    /\ L2(sample) = 0
    /\ MAX_MOVEMENT_SPEED = 1
    /\ sent = <<<<"left", 1>>>>

(***************************************************************************)
(* The claims about the position fields of the builders and setters.       *)
(***************************************************************************)
\* the setter was given an int within its valid range
ValidCall ==
    /\ call.op \in Setters
    /\ call.args[4] = "int"
    /\ call.args[1] >= RangeLow(call.op)
    /\ call.args[1] <= RangeHigh(call.op)

\* C21: relative_position, set_pan_rel and set_tilt_rel each encode a leftward
\* or negative pan amount a as the field value 65532 - |a| and a downward or
\* negative tilt amount b as 65500 - |b|.
C21_RelativeModulus ==
    /\ call.op = "relative_position" =>
          /\ call.args[5] # 1 => PanField(wire.com) = Nibbles(65532 - call.args[3])
          /\ call.args[6] # 1 => TiltField(wire.com) = Nibbles(65500 - call.args[4])
    /\ (call.op = "set_pan_rel" /\ ValidCall /\ call.args[1] < 0) =>
          /\ ~wire.raised /\ Len(wire.com) = 30
          /\ Unpack(PanField(wire.com)) = 65532 - Abs(call.args[1])
    /\ (call.op = "set_tilt_rel" /\ ValidCall /\ call.args[1] < 0 /\ ~call.args[3].raised) =>
          /\ ~wire.raised /\ Len(wire.com) = 30
          /\ Unpack(TiltField(wire.com)) = 65500 - Abs(call.args[1])

\* C22: for pan and tilt speeds in 0..24, the VV and WW bytes of the command of
\* relative_position, read as hexadecimal, are the speeds given.
C22_RelativeSpeedsHex ==
    (call.op = "relative_position" /\ call.args[1] \in 0 .. 24 /\ call.args[2] \in 0 .. 24) =>
        /\ ~wire.raised /\ Len(wire.com) = 30
        /\ Field(wire.com, 9, 10) = TwoHex(call.args[1])
        /\ Field(wire.com, 11, 12) = TwoHex(call.args[2])

\* the eight characters are four bytes with high nibble 0 whose low nibbles are
\* the hexadecimal digits of v, most significant first
NibblePerByte(field, v) ==
    /\ Len(field) = 8
    /\ \A i \in {1, 3, 5, 7} : field[i] = "0"
    /\ \A i \in {2, 4, 6, 8} : field[i] \in HexChars
    /\ Unpack(field) = v

\* C23: for an int val in 0..65535 set_zoom sends 81010447 0p 0q 0r 0s FF,
\* p q r s being the hexadecimal digits of val, most significant first; set_pan
\* and set_tilt lay out their pan and tilt fields the same way.
C23_NibblePerByte ==
    /\ (call.op = "set_zoom" /\ ValidCall) =>
          /\ ~wire.raised /\ Len(wire.com) = 18
          /\ SubSeq(wire.com, 1, 8) = <<"8", "1", "0", "1", "0", "4", "4", "7">>
          /\ NibblePerByte(SubSeq(wire.com, 9, 16), call.args[1])
          /\ SubSeq(wire.com, 17, 18) = <<"F", "F">>
    /\ (call.op = "set_pan" /\ ValidCall /\ ~call.args[3].raised) =>
          /\ ~wire.raised /\ Len(wire.com) = 30
          /\ NibblePerByte(PanField(wire.com), Wrap(call.args[1]))
          /\ NibblePerByte(TiltField(wire.com), call.args[3].value)
    /\ (call.op = "set_tilt" /\ ValidCall /\ ~call.args[3].raised) =>
          /\ ~wire.raised /\ Len(wire.com) = 30
          /\ NibblePerByte(PanField(wire.com), call.args[3].value)
          /\ NibblePerByte(TiltField(wire.com), Wrap(call.args[1]))

\* C23 witness: set_zoom(4660) has sent 81010447 01 02 03 04 FF
C23_Witness ==
    /\ call.op = "set_zoom"
    /\ call.args[1] = 4660 /\ call.args[4] = "int"
    /\ wire.com = <<"8", "1", "0", "1", "0", "4", "4", "7",
                    "0", "1", "0", "2", "0", "3", "0", "4", "F", "F">>

\* the field value that set_pan or set_tilt sends for the int v
AbsoluteField(op, v, speed, other) ==
    IF op = "set_pan"
    THEN Unpack(SetterField(op, set_pan(v, speed, other, "int").com))
    ELSE Unpack(SetterField(op, set_tilt(v, speed, other, "int").com))

\* C24: set_pan and set_tilt encode a val in -32767..-1 as the field 65535 + val
\* and a val in 0..32767 as itself; no two values share a field value, and
\* every field value lies in 0..65534.
C24_AbsoluteWrap ==
    (call.op \in {"set_pan", "set_tilt"} /\ ValidCall /\ ~call.args[3].raised) =>
        LET val == call.args[1]
            f == Unpack(SetterField(call.op, wire.com))
        IN  /\ ~wire.raised /\ Len(wire.com) = 30
            /\ f = IF val < 0 THEN 65535 + val ELSE val
            /\ f \in 0 .. 65534
            /\ \A v2 \in PositionValues :
                  (v2 >= -32767 /\ v2 <= 32767 /\ v2 # val) =>
                      AbsoluteField(call.op, v2, call.args[2], call.args[3]) # f

\* C24 witness: set_pan(-1) has sent the field 65534 and set_tilt(-32767) 32768
C24_Witness ==
    \/ /\ call.op = "set_pan" /\ call.args[1] = -1 /\ call.args[4] = "int"
       /\ Len(wire.com) = 30
       /\ PanField(wire.com) = <<"0", "f", "0", "f", "0", "f", "0", "e">>
    \/ /\ call.op = "set_tilt" /\ call.args[1] = -32767 /\ call.args[4] = "int"
       /\ Len(wire.com) = 30
       /\ TiltField(wire.com) = <<"0", "8", "0", "0", "0", "0", "0", "0">>

\* C30: a setter called with a value outside its range, or with a value that
\* is not an int, returns False and causes no traffic: no inquiry, no command.
C30_InvalidValueNoTraffic ==
    (call.op \in Setters /\ ~ValidCall) =>
        /\ ret = "False"
        /\ wrote = "none"
        /\ wire.com = <<>>
        /\ steps = <<>>

(***************************************************************************)
(* The claims about the speed tiers and the rest latches of the loop.      *)
(***************************************************************************)
\* C25: after every iteration that read a sample, the pan/tilt ceiling is 14
\* if L2 read active, else 7 if L1 read pressed, else 1, and the zoom ceiling
\* 7, 3 or 1 by R2 and R1 likewise; neither depends on the other pair of
\* controls nor on the ceiling of the iteration before, and every start sent
\* carries the ceiling of its iteration.
C25_CeilingFromSample ==
    polled =>
        /\ MAX_MOVEMENT_SPEED
              = (IF L2(sample) = 1 THEN 14 ELSE IF sample.L1 = 1 THEN 7 ELSE 1)
        /\ MAX_ZOOM_SPEED = (IF R2(sample) = 1 THEN 7 ELSE IF sample.R1 = 1 THEN 3 ELSE 1)
        /\ \A r \in {0, 1}, t \in TriggerReadings, c \in {1, 3, 7, 14} :
              /\ MovementTier([Locals EXCEPT !.MAX_MOVEMENT_SPEED = c, !.MAX_ZOOM_SPEED = c],
                              [sample EXCEPT !.R1 = r, !.axis5 = t]).MAX_MOVEMENT_SPEED
                    = MAX_MOVEMENT_SPEED
              /\ ZoomTier([Locals EXCEPT !.MAX_MOVEMENT_SPEED = c, !.MAX_ZOOM_SPEED = c],
                          [sample EXCEPT !.L1 = r, !.axis4 = t]).MAX_ZOOM_SPEED
                    = MAX_ZOOM_SPEED
        /\ \A i \in 1 .. Len(sent) :
              /\ IsStart(sent[i], StartOps("pantilt")) => sent[i][2] = MAX_MOVEMENT_SPEED
              /\ IsStart(sent[i], StartOps("zoom")) => sent[i][2] = MAX_ZOOM_SPEED

\* C25 witness: with L1 pressed and L2 active, left has been sent at 14
C25_Witness ==
    /\ polled
    /\ sample.L1 = 1
    /\ L2(sample) = 1
    /\ MAX_MOVEMENT_SPEED = 14
    /\ \E i \in 1 .. Len(sent) : sent[i] = <<"left", 14>>

\* C26: after every iteration that read a sample, block_rest is true exactly
\* when both left-stick axes read the rest value, and then the four direction
\* latches are false; block_zoom_rest is true exactly when the zoom axis read
\* the rest value, and then the two zoom latches are false.
C26_RestLatchMeansRest ==
    polled =>
        /\ block.block_rest <=> (/\ ABS_JOY_L_X(sample) = JOYSTICK_REST_VAL
                                 /\ ABS_JOY_L_Y(sample) = JOYSTICK_REST_VAL)
        /\ block.block_rest =>
              (/\ ~block.block_left /\ ~block.block_right
               /\ ~block.block_up /\ ~block.block_down)
        /\ block.block_zoom_rest <=> (ABS_JOY_R_Y(sample) = JOYSTICK_REST_VAL)
        /\ block.block_zoom_rest => (~block.block_zoom_in /\ ~block.block_zoom_out)

\* C26 witness: the pan stick is back at rest after a motion, its latches are
\* released, and the zoom stick is still pushed
C26_Witness ==
    /\ polled
    /\ exc["pan"].phase = "back"
    /\ block.block_rest
    /\ ~block.block_left
    /\ ~block.block_zoom_rest
    /\ block.block_zoom_out

\* C27: after every iteration that read both left-stick axes at rest, the
\* latest pan/tilt command sent is stop, the first iteration included; after
\* every iteration that read the zoom axis at rest, the latest zoom command
\* sent is zoom_stop.
C27_RestMeansStopped ==
    polled =>
        /\ (/\ ABS_JOY_L_X(sample) = JOYSTICK_REST_VAL
            /\ ABS_JOY_L_Y(sample) = JOYSTICK_REST_VAL) => lastCmd["pantilt"] = <<"stop">>
        /\ ABS_JOY_R_Y(sample) = JOYSTICK_REST_VAL => lastCmd["zoom"] = <<"zoom_stop">>

\* C27 witness: the first iteration with a joystick read the sticks at rest and
\* sent stop and zoom_stop
C27_Witness ==
    /\ polled
    /\ \A a \in Axes : exc[a].phase = "rest"
    /\ sent = <<<<"stop">>, <<"zoom_stop">>>>
    /\ lastCmd["pantilt"] = <<"stop">>
    /\ lastCmd["zoom"] = <<"zoom_stop">>

\* the side of the rest value a reading lies on
Side(v) == IF v < JOYSTICK_REST_VAL THEN -1 ELSE IF v > JOYSTICK_REST_VAL THEN 1 ELSE 0

\* C28: an iteration that reads an axis on the side it was on in the iteration
\* before sends no start for that axis, whatever the tier controls read; when
\* only the tier controls read differently and an axis is deflected, it sends
\* nothing at all, and the latest motion commands stay what they were.
C28_TierChangeSendsNothing ==
    [][(polled /\ polled') =>
          /\ \A a \in Axes :
                (/\ Side(AxisValue(sample, a)) # 0
                 /\ Side(AxisValue(sample', a)) = Side(AxisValue(sample, a))) =>
                    \A i \in 1 .. Len(sent') : ~IsStart(sent'[i], StartOps(a))
          /\ (/\ \E a \in Axes : Side(AxisValue(sample, a)) # 0
              /\ [sample' EXCEPT !.L1 = 0, !.axis4 = 0, !.R1 = 0, !.axis5 = 0]
                    = [sample EXCEPT !.L1 = 0, !.axis4 = 0, !.R1 = 0, !.axis5 = 0]) =>
                (sent' = <<>> /\ lastCmd' = lastCmd)]_vars

\* C28 witness: left went out at ceiling 1; the stick is still left, the
\* ceiling is now 14, and the iteration sent nothing
C28_Witness ==
    /\ polled
    /\ ABS_JOY_L_X(sample) < JOYSTICK_REST_VAL
    /\ lastCmd["pantilt"] = <<"left", 1>>
    /\ MAX_MOVEMENT_SPEED = 14
    /\ block.block_left
    /\ sent = <<>>

\* the command string of a tilt start, as PTZ.up and PTZ.down build it
TiltCommand(cmd) == IF cmd[1] = "up" THEN up(cmd[2]).com ELSE down(cmd[2]).com

\* C29: in every iteration the pan start, if any, is sent before the tilt
\* start, no diagonal command is sent, and a tilt start carries 03 (stop) as
\* its pan direction; an iteration that reads both left-stick axes off rest
\* after one that read both at rest sends a pan start and then a tilt start,
\* which is the command left in effect.
C29_PanBeforeTilt ==
    [][polled' =>
          /\ \A i, j \in 1 .. Len(sent') :
                (/\ IsStart(sent'[i], StartOps("pan"))
                 /\ IsStart(sent'[j], StartOps("tilt"))) => i < j
          /\ \A i \in 1 .. Len(sent') :
                /\ sent'[i][1] \notin {"left_up", "left_down", "right_up", "right_down"}
                /\ IsStart(sent'[i], StartOps("tilt")) =>
                      Field(TiltCommand(sent'[i]), 13, 14) = <<"0", "3">>
          /\ (/\ polled
              /\ Side(AxisValue(sample, "pan")) = 0 /\ Side(AxisValue(sample, "tilt")) = 0
              /\ Side(AxisValue(sample', "pan")) # 0
              /\ Side(AxisValue(sample', "tilt")) # 0) =>
                /\ \E i, j \in 1 .. Len(sent') :
                      /\ i < j
                      /\ sent'[i][1] = (IF Side(AxisValue(sample', "pan")) < 0
                                        THEN "left" ELSE "right")
                      /\ sent'[j][1] = (IF Side(AxisValue(sample', "tilt")) < 0
                                        THEN "up" ELSE "down")
                /\ IsStart(lastCmd'["pantilt"], StartOps("tilt"))]_vars

\* C29 witness: both axes left rest together; left and then up were sent
C29_Witness ==
    /\ polled
    /\ sent = <<<<"left", 1>>, <<"up", 1>>>>
    /\ lastCmd["pantilt"] = <<"up", 1>>
    /\ TiltCommand(<<"up", 1>>)
          = <<"8", "1", "0", "1", "0", "6", "0", "1", "1", "5", "0", "1",
              "0", "3", "0", "1", "F", "F">>

(***************************************************************************)
(* The claims about the setters that ask the camera first.                 *)
(***************************************************************************)
\* C31: when set_pan has written its command for an in-range value, the
\* inquiry (clear, write of 81090612FF, read of the response) came before that
\* write, and the tilt field of the command holds the four tilt nibbles of the
\* response read; set_tilt likewise holds the pan nibbles of the response.
C31_OtherCoordinateKept ==
    (call.op \in {"set_pan", "set_tilt"} /\ inq_at = "done" /\ Len(wire.com) = 30) =>
        /\ steps = <<<<"clear">>, <<"write", PanTiltInq>>, <<"read">>, <<"write", wire.com>>>>
        /\ (\E v, w \in Values16 : heard = hexlify(PanTiltReply(v, w))) =>
              IF call.op = "set_pan"
              THEN Unpack(TiltField(wire.com)) = Unpack(SubSeq(heard, 13, 20))
              ELSE Unpack(PanField(wire.com)) = Unpack(SubSeq(heard, 5, 12))

\* C32: for an int val in -32767..32767 set_zoom_rel sends the absolute zoom
\* command for max(0, z + val), z being a zoom the camera reported to it, also
\* when the camera reports different zooms to its successive inquiries; the
\* target is never a negative sum wrapped into 0..65535.
C32_ZoomTargetFloored ==
    (/\ call.op = "set_zoom_rel"
     /\ ValidCall
     /\ ~call.args[3].raised /\ ~call.args[5].raised /\ ~call.args[6].raised) =>
        LET val == call.args[1]
            z1 == call.args[3]
            z2 == call.args[5]
            z3 == call.args[6]
            reported == {z1.value, z3.value}
                            \cup (IF val + z1.value < 0 THEN {z2.value} ELSE {})
        IN  /\ ~wire.raised /\ Len(wire.com) = 18
            /\ \E z \in reported :
                  Unpack(SetterField(call.op, wire.com))
                      = (IF z + val < 0 THEN 0 ELSE z + val)

(***************************************************************************)
(* The claim about two joysticks.                                          *)
(***************************************************************************)
\* C33: with two joysticks connected, one of them holding a button or an axis
\* and the other untouched, at most one recall is sent during the press of a
\* button, and at most one start and one stop during the deflection of an
\* axis, however many iterations pass.
C33_PairSendsOnce ==
    (polled /\ joysticks = {1, 2}) =>
        /\ \A i \in 0 .. 3 : runRecall[i] <= 1
        /\ \A a \in Axes : exc[a].phase = "moving" =>
              (exc[a].starts <= 1 /\ exc[a].stops <= 1)

====
